---- MODULE Spec2Model ----
(***************************************************************************)
(* A model of the perpetual-futures exchange of bitcoin-perp-dex: the bank *)
(* ledger (ledger.py), the futures ledger (futures_ledger.py), the         *)
(* matching engine (futures_engine.py), the funding pass                   *)
(* (funding_rate.py), the liquidation scan (liquidation_engine.py), the    *)
(* price oracle cache (price_oracle.py) and the HTTP handlers of app.py    *)
(* that move collateral and place, cancel and close.                       *)
(*                                                                         *)
(* Money is integer millisatoshis, sizes are integer satoshis, prices are  *)
(* whole USD.  The engine computes with IEEE-754 doubles; every operator   *)
(* below that models such a computation is the exact integer formula       *)
(* corrected by the set of inputs on which the double evaluation lands one *)
(* below it (the *Dust sets, evaluated with the repository's own           *)
(* expressions on the inputs this model draws from).                       *)
(***************************************************************************)
EXTENDS Integers, Sequences, FiniteSets, TLC

(***************************************************************************)
(* Bounds of the model.                                                    *)
(***************************************************************************)
MaxOrders == 2          \* orders persisted in a run of the whole system
MaxBookOrders == 3      \* orders persisted in a run of the order book
MaxTransfers == 2       \* collateral moves in a run of the whole system
MaxBankTransfers == 4   \* collateral moves in a run of the bank
MaxFunding == 1         \* funding passes in a run
MaxNow == 2             \* the clock stops advancing at this second
MaxRatePasses == 1      \* funding passes recorded in a run of the rate alone
MaxFundingPasses == 2   \* funding passes recorded in a run of the funding job
MaxAuthTransfers == 3   \* collateral moves in a run of the challenge exchange
MaxAuthNow == 303       \* the clock stops advancing here in that run
MaxClampPasses == 14    \* funding passes recorded in a run that exhausts a collateral
MaxOracleNow == 62      \* the clock stops advancing here in a run of the oracle

(***************************************************************************)
(* Inputs.                                                                 *)
(***************************************************************************)
Pubkeys == {"A", "B"}
Sides == {"long", "short"}
OrderTypes == {"limit", "market"}
NoPrice == 0                          \* price_usd = None / NULL; oracle: no value
Prices == {100, 110}                  \* USD prices: the oracle's and the orders'
Sizes == {1000, 2700}                 \* size_sats of submitted orders
Leverages == {10}                     \* leverage of submitted orders
LightningAmounts == {400000}          \* msats credited by a paid deposit invoice
Amounts == {-1, 300000}               \* amount_msats of collateral moves
CrashPrices == {90}                   \* USD prices the oracle reports in a crash
\* Oracle prices far enough apart for the premium to reach the cap of the rate.
RatePrices == {1, 2, 3, 4, 26, 27, 52, 53, 78, 100, 104, 110}

(***************************************************************************)
(* Program constants.                                                      *)
(***************************************************************************)
MARKETS == {"BTC-USD-PERP"}            \* futures_engine.MARKETS: the symbols
MAX_LEVERAGE == 20                    \* config.MAX_LEVERAGE
FEE_DEN == 10000                      \* denominator of the fee fractions below
TAKER_FEE_NUM == 5                    \* config.TAKER_FEE_PCT = 0.0005
MAKER_FEE_NUM == 2                    \* config.MAKER_FEE_PCT = 0.0002
MM_NUM == 5                           \* config.MAINTENANCE_MARGIN_PCT = 0.05 = 5/100
MM_DEN == 100
INS_FEE_NUM == 1                      \* config.INSURANCE_FUND_FEE_PCT = 0.001 = 1/1000
INS_FEE_DEN == 1000
LIQ_FEE_NUM == 5                      \* LIQUIDATION_FEE_PCT = 0.005 = 5/1000
LIQ_FEE_DEN == 1000
CHALLENGE_TTL_SECONDS == 300          \* app.CHALLENGE_TTL_SECONDS
CACHE_TTL == 30                       \* price_oracle._CACHE_TTL, seconds
FUNDING_NUM == 3                      \* FUNDING_FACTOR = 0.0003 = 3/10000
FUNDING_DEN == 10000
MAX_RATE_NUM == 75                    \* MAX_RATE = 0.0075 = 75/10000
MAX_RATE_DEN == 10000

(***************************************************************************)
(* Arithmetic helpers.                                                     *)
(***************************************************************************)
Abs(x) == IF x < 0 THEN -x ELSE x
Min(a, b) == IF a < b THEN a ELSE b
Max(a, b) == IF a > b THEN a ELSE b

\* Python's int(x) of a quotient: rounding toward zero.
TruncDiv(a, b) == IF a >= 0 THEN a \div b ELSE -((-a) \div b)

RECURSIVE GCD(_, _)
GCD(a, b) == IF b = 0 THEN a ELSE GCD(b, a % b)

(***************************************************************************)
(* futures_engine.py: margin and PnL helpers.                              *)
(***************************************************************************)
\* (size_sats, price_usd) on which int(((size/1e8)*price/price)*1e11) is
\* size*1000 - 1 in double arithmetic.
NotionalDust == {<<2700, 100>>, <<2700, 200>>}

\* usd_to_msats(sats_to_usd(size_sats, price_usd), price_usd)
NotionalMsats(size_sats, price_usd) ==
    size_sats * 1000 - (IF <<size_sats, price_usd>> \in NotionalDust THEN 1 ELSE 0)

\* required_collateral_msats(size_sats, leverage, price_usd, fee_pct)
required_collateral_msats(size_sats, leverage, price_usd, fee_num) ==
    LET fp == IF fee_num # 0 THEN fee_num ELSE TAKER_FEE_NUM
        notional_msats == NotionalMsats(size_sats, price_usd)
        margin == notional_msats \div leverage
        fee == (notional_msats * fp) \div FEE_DEN
    IN  margin + fee

\* calc_unrealized_pnl_msats(side, size_sats, entry_price_usd, mark_price_usd)
calc_unrealized_pnl_msats(side, size_sats, entry, mark) ==
    LET diff == IF side = "long" THEN mark - entry ELSE entry - mark
    IN  TruncDiv(diff * size_sats * 1000, entry)

\* The ratio of the collateral alone, without the unrealized PnL.
MarginRatioAtLeastMaintenance_collateral_only(collateral_msats, pnl_msats, size_sats, mark) ==
    LET notional_msats == NotionalMsats(size_sats, mark)
    IN  /\ notional_msats > 0
        /\ collateral_msats * MM_DEN >= MM_NUM * notional_msats

\* calc_margin_ratio(...) >= MAINTENANCE_MARGIN_PCT, decided on integers;
\* a notional <= 0 gives the ratio 0.0, which is below maintenance.
MarginRatioAtLeastMaintenance(collateral_msats, pnl_msats, size_sats, mark) ==
    LET notional_msats == NotionalMsats(size_sats, mark)
        equity == collateral_msats + pnl_msats
    IN  /\ notional_msats > 0
        /\ equity * MM_DEN >= MM_NUM * notional_msats

\* The price computed as for a long whatever the side.
calc_liquidation_price_taking_long(side, entry, leverage) ==
    entry * (1000 - (1000 \div leverage) + (1000 * MM_NUM) \div MM_DEN)

\* The price with the maintenance margin taken off on both sides.
calc_liquidation_price_margin_off(side, entry, leverage) ==
    IF side = "long"
    THEN entry * (1000 - (1000 \div leverage) - (1000 * MM_NUM) \div MM_DEN)
    ELSE entry * (1000 + (1000 \div leverage) - (1000 * MM_NUM) \div MM_DEN)

\* calc_liquidation_price(side, entry, leverage), in thousandths of a USD:
\* the exact value of the expression, which the double result matches to
\* within its last place.
calc_liquidation_price(side, entry, leverage) ==
    IF side = "long"
    THEN entry * (1000 - (1000 \div leverage) + (1000 * MM_NUM) \div MM_DEN)
    ELSE entry * (1000 + (1000 \div leverage) - (1000 * MM_NUM) \div MM_DEN)


(***************************************************************************)
(* State.                                                                  *)
(***************************************************************************)
VARIABLES
    accounts,          \* ledger.py accounts: pubkey -> balance_msats (rows only)
    transactions,      \* ledger.py transactions: the transfer ids with rows in it
    processed_transfer_events,  \* app._processed_transfer_events
    futures_accounts,  \* futures_accounts: pubkey -> collateral_msats (rows only)
    orders,            \* orders table, in insertion order; the index is the id
    positions,         \* positions table: a set of rows, each with its id
    trades,            \* trades table, in insertion order
    funding_rates,     \* funding_rates table, in insertion order
    insurance_fund,    \* insurance_fund.balance_msats
    cache_price,       \* price_oracle._cache["price"] (NoPrice: never fetched)
    cache_ts,          \* price_oracle._cache["ts"]: when the cached price was fetched
    challenges,        \* app._challenges: pubkey -> {challenge, expires_at}
    now,               \* int(time.time())
    n_transfers,       \* collateral deposit / withdraw calls made so far
    last,              \* the last accepted call and what it saw before it ran
    threads,           \* request threads inside an engine call: position and locals
    engine_lock        \* futures_engine._engine_lock: the thread holding it

vars == <<accounts, transactions, processed_transfer_events, futures_accounts, orders, positions, trades, funding_rates,
          insurance_fund, cache_price, cache_ts, challenges, now, n_transfers, last,
          threads, engine_lock>>

\* A signed event of a client: who signed it and its content.  The id of
\* an event is the hash of its fields, so equal fields are the same event.
NoSigned == [pubkey |-> "", content |-> 0]

NoCall == [op |-> "none", pubkey |-> "", ok |-> FALSE, arg |-> 0,
           balance_before |-> 0, collateral_before |-> 0, fund_before |-> 0,
           upstream_called |-> FALSE, signed |-> NoSigned]

\* ledger.get_balance_msats
get_balance_msats(pubkey) ==
    IF pubkey \in DOMAIN accounts THEN accounts[pubkey] ELSE 0

\* futures_ledger.get_collateral_msats
get_collateral_msats(pubkey) ==
    IF pubkey \in DOMAIN futures_accounts THEN futures_accounts[pubkey] ELSE 0

Call(op, pubkey, ok, arg) ==
    [op |-> op, pubkey |-> pubkey, ok |-> ok, arg |-> arg,
     balance_before |-> get_balance_msats(pubkey),
     collateral_before |-> get_collateral_msats(pubkey),
     fund_before |-> insurance_fund,
     upstream_called |-> FALSE, signed |-> NoSigned]

Record(op, pubkey, ok, arg) ==
    last' = IF ok THEN Call(op, pubkey, ok, arg) ELSE last

RecordSigned(op, pubkey, ok, arg, signed) ==
    last' = IF ok THEN [Call(op, pubkey, ok, arg) EXCEPT !.signed = signed] ELSE last

\* The request threads of the server; a thread outside the engine is idle.
Threads == {"t1", "t2"}
NoThread == "none"
NoEvent == [pubkey |-> "", market |-> "", side |-> "", order_type |-> "",
            size_sats |-> 0, price_usd |-> 0, leverage |-> 0]
NoOrder == [pubkey |-> "", side |-> "", order_type |-> "", size_sats |-> 0,
            price_usd |-> 0, leverage |-> 0, status |-> "", filled_size_sats |-> 0,
            nostr_event_id |-> NoEvent, created_at |-> 0]
NoPosition == [id |-> 0, pubkey |-> "", side |-> "", size_sats |-> 0,
               entry_price_usd |-> 0, collateral_msats |-> 0, leverage |-> 0,
               liquidation_price_usd |-> 0, funding_cost_msats |-> 0]
\* A signed transfer event (kind 33194): the sender, and the recipient and
\* amount of its content.  A request carries the signed fields and an id;
\* the id of tag 0 is the hash of the signed fields, any other tag is
\* another string.
NoTransfer == [pubkey |-> "", to_pubkey |-> "", amount_msats |-> 0]
NoRequest == [event |-> NoTransfer, id |-> [event |-> NoTransfer, tag |-> 0]]
IdleThread == [pc |-> "idle", request |-> NoRequest, ev |-> NoEvent, ref_price |-> 0, needed |-> 0, id |-> 0,
               resting |-> << >>, rows |-> << >>, i |-> 0, taker_remaining |-> 0,
               order |-> NoOrder, position |-> NoPosition, mark |-> 0,
               deleted |-> FALSE]

Init ==
    /\ accounts = << >>
    /\ transactions = {}
    /\ processed_transfer_events = {}
    /\ futures_accounts = << >>
    /\ orders = << >>
    /\ positions = {}
    /\ trades = << >>
    /\ funding_rates = << >>
    /\ insurance_fund = 0
    /\ cache_price = NoPrice
    /\ cache_ts = 0
    /\ challenges = << >>
    /\ now = 1
    /\ n_transfers = 0
    /\ last = NoCall
    /\ threads = [t \in Threads |-> IdleThread]
    /\ engine_lock = NoThread

(***************************************************************************)
(* ledger.py and futures_ledger.py: account rows.                          *)
(***************************************************************************)
\* credit_deposit writing the amount over the balance of an existing row.
credit_deposit_overwriting(accts, pubkey, amount_msats) ==
    [q \in DOMAIN accts \cup {pubkey} |-> IF q = pubkey THEN amount_msats ELSE accts[q]]

\* ledger.credit_deposit: UPDATE, or INSERT when the row is missing.
credit_deposit(accts, pubkey, amount_msats) ==
    [q \in DOMAIN accts \cup {pubkey} |->
        IF q = pubkey
        THEN (IF pubkey \in DOMAIN accts THEN accts[pubkey] ELSE 0) + amount_msats
        ELSE accts[q]]

\* ledger.debit_withdrawal succeeds: the row exists and covers the amount.
debit_withdrawal_ok(accts, pubkey, amount_msats) ==
    /\ pubkey \in DOMAIN accts
    /\ ~(accts[pubkey] < amount_msats)

debit_withdrawal(accts, pubkey, amount_msats) ==
    [accts EXCEPT ![pubkey] = @ - amount_msats]

\* futures_ledger.credit_collateral: get_or_create, then UPDATE.
credit_collateral(facc, pubkey, amount_msats) ==
    [q \in DOMAIN facc \cup {pubkey} |->
        IF q = pubkey
        THEN (IF pubkey \in DOMAIN facc THEN facc[pubkey] ELSE 0) + amount_msats
        ELSE facc[q]]

\* futures_ledger.debit_collateral succeeds: the row exists and covers it.
debit_collateral_ok(facc, pubkey, amount_msats) ==
    /\ pubkey \in DOMAIN facc
    /\ ~(facc[pubkey] < amount_msats)

debit_collateral(facc, pubkey, amount_msats) ==
    [facc EXCEPT ![pubkey] = @ - amount_msats]

\* futures_ledger.credit_insurance_fund
credit_insurance_fund(fund, amount_msats) == fund + amount_msats

\* A debit that does not saturate.
debit_insurance_fund_unsaturated(fund, amount_msats) == fund - amount_msats

\* futures_ledger.debit_insurance_fund: saturates at 0.
debit_insurance_fund(fund, amount_msats) == Max(0, fund - amount_msats)

(***************************************************************************)
(* price_oracle.py.  A read of the oracle answers from the cache while it  *)
(* is fresh; once it is stale the read fetches from upstream: a fetch that *)
(* succeeds (`fetched` is the price it got) refreshes the cache, a fetch   *)
(* that fails (`fetched` is NoPrice) answers with the last good value.     *)
(***************************************************************************)
Fetches == Prices \cup {NoPrice}

\* get_index_price(market) / get_mark_price(market): the value returned,
\* which is also the cached price after the read.
get_mark_price(fetched) == IF fetched # NoPrice THEN fetched ELSE cache_price

\* _cache["ts"] after a read at time t: a fetch that succeeded stamps it.
cache_ts_after(fetched, t) == IF fetched # NoPrice THEN t ELSE cache_ts

\* A read that answers nothing when the fetch fails.
get_index_price_no_fallback(price, ts, t, upstream) ==
    IF price # NoPrice /\ t - ts < CACHE_TTL
    THEN [returned |-> price, price |-> price, ts |-> ts, upstream_called |-> FALSE]
    ELSE IF upstream # NoPrice
    THEN [returned |-> upstream, price |-> upstream, ts |-> t, upstream_called |-> TRUE]
    ELSE [returned |-> NoPrice, price |-> price, ts |-> ts, upstream_called |-> TRUE]

\* get_index_price at time t with the cache (price, ts), `upstream` being
\* what _fetch_kraken_price answers if it is called: the value returned,
\* the cache afterwards, and whether upstream was called.
get_index_price(price, ts, t, upstream) ==
    IF price # NoPrice /\ t - ts < CACHE_TTL
    THEN [returned |-> price, price |-> price, ts |-> ts, upstream_called |-> FALSE]
    ELSE IF upstream # NoPrice
    THEN [returned |-> upstream, price |-> upstream, ts |-> t, upstream_called |-> TRUE]
    ELSE [returned |-> price, price |-> price, ts |-> ts, upstream_called |-> TRUE]

\* A call of get_index_price after `elapsed` seconds.
call_get_index_price(elapsed, upstream) ==
    /\ now' = now + elapsed
    /\ LET r == get_index_price(cache_price, cache_ts, now + elapsed, upstream)
       IN  /\ cache_price' = r.price
           /\ cache_ts' = r.ts
           /\ last' = [NoCall EXCEPT !.op = "get_index_price", !.ok = TRUE,
                                     !.arg = r.returned,
                                     !.upstream_called = r.upstream_called]
    /\ UNCHANGED <<transactions, processed_transfer_events,
                   accounts, futures_accounts, orders, positions, trades, funding_rates,
                   insurance_fund, challenges, n_transfers, threads, engine_lock>>

(***************************************************************************)
(* app.py: deposits from outside and collateral moves.                     *)
(***************************************************************************)
\* _process_deposit: a paid invoice credits the sender's bank account.  Each
\* account is funded by one invoice.
LightningDeposit(pubkey, amount_msats) ==
    /\ pubkey \notin DOMAIN accounts
    /\ accounts' = credit_deposit(accounts, pubkey, amount_msats)
    /\ Record("lightning_deposit", pubkey, TRUE, amount_msats)
    /\ UNCHANGED <<transactions, processed_transfer_events,
                   futures_accounts, orders, positions, trades, funding_rates,
                   insurance_fund, cache_price, cache_ts, challenges, now, n_transfers,
                   threads, engine_lock>>

\* challenge() at time t: the store after the challenge "bank:<t>" was
\* issued for the pubkey.  The challenge stands for its timestamp.
challenge(store, pubkey, t) ==
    [q \in DOMAIN store \cup {pubkey} |->
        IF q = pubkey THEN [challenge |-> t, expires_at |-> t + CHALLENGE_TTL_SECONDS]
        ELSE store[q]]

\* _challenges.pop(pubkey, None): the store afterwards.
pop(store, pubkey) == [q \in DOMAIN store \ {pubkey} |-> store[q]]

\* The store a signed call meets: the client fetched a challenge for the
\* call (fresh) or goes without.
StoreFor(pubkey, fresh) ==
    IF fresh THEN challenge(challenges, pubkey, now) ELSE challenges

\* The event a client signs for the challenge the store holds for it.
SignedChallenge(store, pubkey) ==
    [pubkey |-> pubkey,
     content |-> IF pubkey \in DOMAIN store THEN store[pubkey].challenge ELSE 0]

\* nostr_utils.verify_signed_challenge: the event is the pubkey's and its
\* content is the challenge.  Every event of the model carries the valid
\* signature of its pubkey.
verify_signed_challenge(signed_event, expected_challenge, expected_pubkey) ==
    /\ signed_event.pubkey = expected_pubkey
    /\ signed_event.content = expected_challenge

\* The challenge checks of a signed call at time t: a challenge is stored
\* for the pubkey, it has not expired, and the signed event answers it.
ChallengeVerified(store, pubkey, signed_challenge, t) ==
    /\ pubkey \in DOMAIN store
    /\ ~(store[pubkey].expires_at < t)
    /\ verify_signed_challenge(signed_challenge, store[pubkey].challenge, pubkey)

\* GET /api/challenge: a challenge is issued for the pubkey at the current
\* second and replaces the one stored for it.
get_challenge(pubkey) ==
    /\ challenges' = challenge(challenges, pubkey, now)
    /\ UNCHANGED <<transactions, processed_transfer_events,
                   accounts, futures_accounts, orders, positions, trades, funding_rates,
                   insurance_fund, cache_price, cache_ts, now, n_transfers, last,
                   threads, engine_lock>>

\* futures_collateral_deposit after `elapsed` seconds: the amount passes
\* "not amount_msats" when it is not 0; the stored challenge is popped and
\* checked; the bank balance must cover the amount; the bank is debited and
\* the futures account credited.
DepositAccepted(store, pubkey, amount_msats, signed_challenge, t) ==
    /\ amount_msats # 0
    /\ ChallengeVerified(store, pubkey, signed_challenge, t)
    /\ ~(get_balance_msats(pubkey) < amount_msats)
    /\ debit_withdrawal_ok(accounts, pubkey, amount_msats)

futures_collateral_deposit(store, pubkey, amount_msats, signed_challenge, elapsed) ==
    /\ n_transfers' = n_transfers + 1
    /\ now' = now + elapsed
    /\ challenges' = IF amount_msats # 0 THEN pop(store, pubkey) ELSE store
    /\ IF DepositAccepted(store, pubkey, amount_msats, signed_challenge, now + elapsed)
       THEN /\ accounts' = debit_withdrawal(accounts, pubkey, amount_msats)
            /\ futures_accounts' = credit_collateral(futures_accounts, pubkey, amount_msats)
            /\ RecordSigned("collateral_deposit", pubkey, TRUE, amount_msats,
                            signed_challenge)
       ELSE /\ UNCHANGED <<accounts, futures_accounts>>
            /\ RecordSigned("collateral_deposit", pubkey, FALSE, amount_msats,
                            signed_challenge)
    /\ UNCHANGED <<transactions, processed_transfer_events,
                   orders, positions, trades, funding_rates, insurance_fund,
                   cache_price, cache_ts,
                   threads, engine_lock>>

\* futures_collateral_withdraw after `elapsed` seconds: the futures account
\* is debited and the bank credited.
WithdrawAccepted(store, pubkey, amount_msats, signed_challenge, t) ==
    /\ amount_msats # 0
    /\ ChallengeVerified(store, pubkey, signed_challenge, t)
    /\ debit_collateral_ok(futures_accounts, pubkey, amount_msats)

futures_collateral_withdraw(store, pubkey, amount_msats, signed_challenge, elapsed) ==
    /\ n_transfers' = n_transfers + 1
    /\ now' = now + elapsed
    /\ challenges' = IF amount_msats # 0 THEN pop(store, pubkey) ELSE store
    /\ IF WithdrawAccepted(store, pubkey, amount_msats, signed_challenge, now + elapsed)
       THEN /\ futures_accounts' = debit_collateral(futures_accounts, pubkey, amount_msats)
            /\ accounts' = credit_deposit(accounts, pubkey, amount_msats)
            /\ RecordSigned("collateral_withdraw", pubkey, TRUE, amount_msats,
                            signed_challenge)
       ELSE /\ UNCHANGED <<accounts, futures_accounts>>
            /\ RecordSigned("collateral_withdraw", pubkey, FALSE, amount_msats,
                            signed_challenge)
    /\ UNCHANGED <<transactions, processed_transfer_events,
                   orders, positions, trades, funding_rates, insurance_fund,
                   cache_price, cache_ts,
                   threads, engine_lock>>

(***************************************************************************)
(* futures_ledger.py: orders, positions, trades.                           *)
(***************************************************************************)
\* The signed order events a client can submit.  The event id is the hash
\* of the event's content, so an event stands for its own id.
OrderEvents(sizes) ==
    [pubkey : Pubkeys, market : MARKETS, side : Sides, order_type : {"limit"},
     size_sats : sizes, price_usd : Prices, leverage : Leverages]
    \cup
    [pubkey : Pubkeys, market : MARKETS, side : Sides, order_type : {"market"},
     size_sats : sizes, price_usd : {NoPrice}, leverage : Leverages]

\* create_order: a new row, status open, nothing filled.
create_order(ev, price_usd, created_at) ==
    [pubkey |-> ev.pubkey, side |-> ev.side, order_type |-> ev.order_type,
     size_sats |-> ev.size_sats, price_usd |-> price_usd, leverage |-> ev.leverage,
     status |-> "open", filled_size_sats |-> 0, nostr_event_id |-> ev,
     created_at |-> created_at]

\* update_order_status(order_id, status, filled_size_sats)
update_order_status(ords, order_id, status, filled) ==
    [ords EXCEPT ![order_id] = [@ EXCEPT !.status = status, !.filled_size_sats = filled]]

\* update_order_status(order_id, status): filled_size_sats is left alone.
set_order_status(ords, order_id, status) ==
    [ords EXCEPT ![order_id] = [@ EXCEPT !.status = status]]

\* create_position
create_position(id, pubkey, side, size_sats, entry, collateral_msats, leverage, liq) ==
    [id |-> id, pubkey |-> pubkey, side |-> side, size_sats |-> size_sats,
     entry_price_usd |-> entry, collateral_msats |-> collateral_msats,
     leverage |-> leverage, liquidation_price_usd |-> liq, funding_cost_msats |-> 0]

\* record_trade
record_trade_sides_swapped(buyer, seller, size_sats, price_usd, buy_order_id, sell_order_id, ts) ==
    [buyer_pubkey |-> buyer, seller_pubkey |-> seller, size_sats |-> size_sats,
     price_usd |-> price_usd, buy_order_id |-> sell_order_id,
     sell_order_id |-> buy_order_id, timestamp |-> ts]

record_trade(buyer, seller, size_sats, price_usd, buy_order_id, sell_order_id, ts) ==
    [buyer_pubkey |-> buyer, seller_pubkey |-> seller, size_sats |-> size_sats,
     price_usd |-> price_usd, buy_order_id |-> buy_order_id,
     sell_order_id |-> sell_order_id, timestamp |-> ts]

\* The open orders of the side, market orders among them.
RestingLimitOrders_any_type(ords, maker_side) ==
    {i \in 1..Len(ords) : /\ ords[i].side = maker_side
                          /\ ords[i].status = "open"}

\* get_open_orders_for_market(market, side), kept to the limit orders as
\* _match_order does: the ids of the candidates.
RestingLimitOrders(ords, maker_side) ==
    {i \in 1..Len(ords) : /\ ords[i].side = maker_side
                          /\ ords[i].status = "open"
                          /\ ords[i].order_type = "limit"}

\* The sort key without the sign flip for a short taker.
KeyBefore_ascending(ords, taker_side, i, j) ==
    \/ ords[i].price_usd < ords[j].price_usd
    \/ ords[i].price_usd = ords[j].price_usd /\ ords[i].created_at < ords[j].created_at

\* The sort key of _match_order: (price, created_at) for a long taker,
\* (-price, created_at) for a short taker.
KeyBefore(ords, taker_side, i, j) ==
    LET pi == IF taker_side = "long" THEN ords[i].price_usd ELSE -ords[i].price_usd
        pj == IF taker_side = "long" THEN ords[j].price_usd ELSE -ords[j].price_usd
    IN  \/ pi < pj
        \/ pi = pj /\ ords[i].created_at < ords[j].created_at

\* sorted(...): the orders of the candidates; rows with equal keys come in
\* the order the database returned them, which SQL leaves open.
SortedResting(ords, taker_side) ==
    LET ids == RestingLimitOrders(ords, IF taker_side = "long" THEN "short" ELSE "long")
        n == Cardinality(ids)
    IN  {seq \in [1..n -> ids] :
            /\ \A a, b \in 1..n : a # b => seq[a] # seq[b]
            /\ \A a, b \in 1..n : a < b => ~KeyBefore(ords, taker_side, seq[b], seq[a])}

(***************************************************************************)
(* futures_engine.py: fills and matching.                                  *)
(***************************************************************************)
\* int(collateral_reserved * (fill_size_sats / order["size_sats"]))
FillCollateral(order, is_taker, fill_size_sats, fill_price_usd) ==
    LET ref_price == IF order.price_usd # NoPrice THEN order.price_usd ELSE fill_price_usd
        fee_num == IF is_taker THEN TAKER_FEE_NUM ELSE MAKER_FEE_NUM
        collateral_reserved ==
            required_collateral_msats(order.size_sats, order.leverage, ref_price, fee_num)
        g == GCD(fill_size_sats, order.size_sats)
    IN  (collateral_reserved * (fill_size_sats \div g)) \div (order.size_sats \div g)

\* A position opened with the size of the whole order.
FillPosition_order_size(id, order, is_taker, fill_size_sats, fill_price_usd) ==
    create_position(id, order.pubkey, order.side, order.size_sats, fill_price_usd,
                    FillCollateral(order, is_taker, fill_size_sats, fill_price_usd),
                    order.leverage,
                    calc_liquidation_price(order.side, fill_price_usd, order.leverage))

\* The position _execute_fill opens for one party of a fill.
FillPosition(id, order, is_taker, fill_size_sats, fill_price_usd) ==
    create_position(id, order.pubkey, order.side, fill_size_sats, fill_price_usd,
                    FillCollateral(order, is_taker, fill_size_sats, fill_price_usd),
                    order.leverage,
                    calc_liquidation_price(order.side, fill_price_usd, order.leverage))

\* _execute_fill on the ledger L = [orders, positions, trades]: two
\* positions, the maker's new status, the trade.  `maker` is the maker's
\* row as _match_order read it.
execute_fill(L, taker_id, maker_id, maker, fill_size_sats, fill_price_usd, ts) ==
    LET taker == L.orders[taker_id]
        base == 2 * Len(L.trades)
        new_filled == maker.filled_size_sats + fill_size_sats
        buyer_id == IF taker.side = "long" THEN taker_id ELSE maker_id
        seller_id == IF taker.side = "short" THEN taker_id ELSE maker_id
    IN  [orders |-> update_order_status(L.orders, maker_id,
                        IF new_filled >= maker.size_sats THEN "filled"
                                                         ELSE "partially_filled",
                        new_filled),
         positions |-> L.positions \cup
                        {FillPosition(base + 1, taker, TRUE, fill_size_sats, fill_price_usd),
                         FillPosition(base + 2, maker, FALSE, fill_size_sats, fill_price_usd)},
         trades |-> Append(L.trades,
                        record_trade(L.orders[buyer_id].pubkey, L.orders[seller_id].pubkey,
                                     fill_size_sats, fill_price_usd, buyer_id, seller_id, ts))]

\* The price check of _match_order: a limit taker stops at the first maker
\* priced beyond its own limit.
PriceGateStops_long_only(taker, taker_price, maker_price) ==
    taker.side = "long" /\ taker.order_type = "limit" /\ taker_price < maker_price

PriceGateStops(taker, taker_price, maker_price) ==
    \/ taker.side = "long" /\ taker.order_type = "limit" /\ taker_price < maker_price
    \/ taker.side = "short" /\ taker.order_type = "limit" /\ taker_price > maker_price

\* The rows of the candidates as the snapshot read them.
RestingRows(ords, resting) == [k \in 1..Len(resting) |-> ords[resting[k]]]

\* The loop of _match_order leaves at candidate i.
LoopEnds(taker, taker_price, rows, i, taker_remaining) ==
    \/ i > Len(rows)
    \/ taker_remaining <= 0
    \/ PriceGateStops(taker, taker_price, rows[i].price_usd)

\* The body of the loop for one candidate: the ledger and the taker's
\* remaining size after it.
MatchOne(L, taker_id, maker_id, maker, taker_remaining, ts) ==
    LET fill_size == Min(taker_remaining, maker.size_sats - maker.filled_size_sats)
    IN  IF fill_size <= 0
        THEN [ledger |-> L, taker_remaining |-> taker_remaining]
        ELSE [ledger |-> execute_fill(L, taker_id, maker_id, maker, fill_size,
                                      maker.price_usd, ts),
              taker_remaining |-> taker_remaining - fill_size]

\* The loop of _match_order over the sorted candidates from index i on.
RECURSIVE MatchLoop(_, _, _, _, _, _, _, _)
MatchLoop(L, taker_id, taker_price, resting, rows, i, taker_remaining, ts) ==
    IF LoopEnds(L.orders[taker_id], taker_price, rows, i, taker_remaining)
    THEN [ledger |-> L, taker_remaining |-> taker_remaining]
    ELSE LET r == MatchOne(L, taker_id, resting[i], rows[i], taker_remaining, ts)
         IN  MatchLoop(r.ledger, taker_id, taker_price, resting, rows, i + 1,
                       r.taker_remaining, ts)

\* The taker's status written without its filled size.
FinishTaker_status_only(ords, taker_id, taker_remaining) ==
    LET total_filled == ords[taker_id].size_sats - taker_remaining
    IN  IF total_filled >= ords[taker_id].size_sats
        THEN set_order_status(ords, taker_id, "filled")
        ELSE IF total_filled > 0
        THEN set_order_status(ords, taker_id, "partially_filled")
        ELSE ords

\* The end of _match_order: the taker's status after the loop.
FinishTaker(ords, taker_id, taker_remaining) ==
    LET total_filled == ords[taker_id].size_sats - taker_remaining
    IN  IF total_filled >= ords[taker_id].size_sats
        THEN update_order_status(ords, taker_id, "filled", total_filled)
        ELSE IF total_filled > 0
        THEN update_order_status(ords, taker_id, "partially_filled", total_filled)
        ELSE ords

\* _match_order: run the loop, then set the taker's status.
match_order(L, taker_id, ref_price, resting, ts) ==
    LET taker == L.orders[taker_id]
        taker_price == IF taker.price_usd # NoPrice THEN taker.price_usd ELSE ref_price
        r == MatchLoop(L, taker_id, taker_price, resting, RestingRows(L.orders, resting), 1,
                       taker.size_sats - taker.filled_size_sats, ts)
    IN  [r.ledger EXCEPT !.orders = FinishTaker(@, taker_id, r.taker_remaining)]

\* The checks without the upper limit of the leverage.
OrderValid_no_leverage_cap(ev) ==
    /\ ev.market \in MARKETS
    /\ ev.side \in {"long", "short"}
    /\ ev.order_type \in {"limit", "market"}
    /\ ev.size_sats > 0
    /\ ev.leverage >= 1
    /\ ~(ev.order_type = "limit" /\ (ev.price_usd = NoPrice \/ ev.price_usd <= 0))

\* The checks of place_order before it touches the ledger.
OrderValid(ev) ==
    /\ ev.market \in MARKETS
    /\ ev.side \in {"long", "short"}
    /\ ev.order_type \in {"limit", "market"}
    /\ ev.size_sats > 0
    /\ ev.leverage >= 1 /\ ev.leverage <= MAX_LEVERAGE
    /\ ~(ev.order_type = "limit" /\ (ev.price_usd = NoPrice \/ ev.price_usd <= 0))

\* ref_price = price_usd or get_mark_price(market): the oracle is read
\* only for an order without a price.
ReadsOracle(ev) == OrderValid(ev) /\ ev.price_usd = NoPrice

RefPrice(ev, fetched) ==
    IF ev.price_usd # NoPrice THEN ev.price_usd ELSE get_mark_price(fetched)

OrderAccepted(ev, fetched) ==
    /\ OrderValid(ev)
    /\ RefPrice(ev, fetched) # NoPrice
    /\ ~(get_collateral_msats(ev.pubkey) <
            required_collateral_msats(ev.size_sats, ev.leverage, RefPrice(ev, fetched),
                                      TAKER_FEE_NUM))
    /\ debit_collateral_ok(futures_accounts, ev.pubkey,
            required_collateral_msats(ev.size_sats, ev.leverage, RefPrice(ev, fetched),
                                      TAKER_FEE_NUM))

\* futures_place_order -> place_order: validate, reserve the collateral,
\* persist the order, match it.  `elapsed` is the time that went by since
\* the clock was last read.
place_order(ev, elapsed, fetched) ==
    /\ ReadsOracle(ev) \/ fetched = NoPrice
    /\ cache_price' = IF ReadsOracle(ev) THEN get_mark_price(fetched) ELSE cache_price
    /\ cache_ts' = cache_ts_after(fetched, now)
    /\ now' = IF OrderAccepted(ev, fetched) THEN now + elapsed ELSE now
    /\ IF OrderAccepted(ev, fetched)
       THEN LET needed == required_collateral_msats(ev.size_sats, ev.leverage,
                                                    RefPrice(ev, fetched), TAKER_FEE_NUM)
                order_id == Len(orders) + 1
                L0 == [orders |-> Append(orders, create_order(ev, ev.price_usd, now')),
                       positions |-> positions, trades |-> trades]
            IN  \E resting \in SortedResting(orders, ev.side) :
                  LET L1 == match_order(L0, order_id, RefPrice(ev, fetched), resting, now')
                  IN  /\ futures_accounts' = debit_collateral(futures_accounts, ev.pubkey, needed)
                      /\ orders' = L1.orders
                      /\ positions' = L1.positions
                      /\ trades' = L1.trades
                      /\ Record("place_order", ev.pubkey, TRUE, order_id)
       ELSE /\ UNCHANGED <<futures_accounts, orders, positions, trades>>
            /\ Record("place_order", ev.pubkey, FALSE, 0)
    /\ UNCHANGED <<transactions, processed_transfer_events,
                   accounts, funding_rates, insurance_fund, challenges, n_transfers,
                   threads, engine_lock>>

\* The checks without the comparison of the owner.
CancelAccepted_any_caller(pubkey, order_id) ==
    /\ order_id \in 1..Len(orders)
    /\ orders[order_id].status = "open"

\* cancel_order: only the owner, only an open order; the refund is
\* computed for the remaining size at the order's price, or at the mark
\* price (1 when the oracle has none) for an order without a price.
CancelAccepted(pubkey, order_id) ==
    /\ order_id \in 1..Len(orders)
    /\ orders[order_id].pubkey = pubkey
    /\ orders[order_id].status = "open"

CancelRefund(order, mark) ==
    required_collateral_msats(
        order.size_sats - order.filled_size_sats, order.leverage,
        IF order.price_usd # NoPrice THEN order.price_usd
        ELSE IF mark # NoPrice THEN mark ELSE 1,
        TAKER_FEE_NUM)

cancel_order(pubkey, order_id, fetched) ==
    /\ IF CancelAccepted(pubkey, order_id)
       THEN /\ cache_price' = get_mark_price(fetched)
            /\ cache_ts' = cache_ts_after(fetched, now)
            /\ orders' = set_order_status(orders, order_id, "cancelled")
            /\ futures_accounts' = credit_collateral(futures_accounts, pubkey,
                                        CancelRefund(orders[order_id], get_mark_price(fetched)))
            /\ Record("cancel_order", pubkey, TRUE, order_id)
       ELSE /\ fetched = NoPrice
            /\ UNCHANGED <<orders, futures_accounts, cache_price, cache_ts>>
            /\ Record("cancel_order", pubkey, FALSE, order_id)
    /\ UNCHANGED <<transactions, processed_transfer_events,
                   accounts, positions, trades, funding_rates, insurance_fund,
                   challenges, now, n_transfers,
                   threads, engine_lock>>

(***************************************************************************)
(* futures_engine.py: close_position.                                      *)
(***************************************************************************)
PositionIds == {p.id : p \in positions}
PositionOf(id) == CHOOSE p \in positions : p.id = id

\* The position exists and is the caller's: close_position goes on to
\* read the oracle.
CloseAllowed(pubkey, position_id) ==
    /\ position_id \in PositionIds
    /\ PositionOf(position_id).pubkey = pubkey

CloseAccepted(pubkey, position_id, fetched) ==
    /\ CloseAllowed(pubkey, position_id)
    /\ get_mark_price(fetched) # NoPrice

\* A settlement that leaves the fee on the profit with the owner.
CloseSettlement_fee_kept(pos, mark) ==
    LET pnl_msats == calc_unrealized_pnl_msats(pos.side, pos.size_sats,
                                               pos.entry_price_usd, mark)
        raw == pos.collateral_msats + pnl_msats
        settlement0 == IF raw < 0 THEN 0 ELSE raw
    IN  [pnl_msats |-> pnl_msats, insurance_draw |-> IF raw < 0 THEN Abs(raw) ELSE 0,
         fee_msats |-> IF settlement0 > pos.collateral_msats
                       THEN ((settlement0 - pos.collateral_msats) * INS_FEE_NUM) \div INS_FEE_DEN
                       ELSE 0,
         settlement |-> settlement0]

\* What close_position settles for a position at the mark price: the draw
\* on the insurance fund, the fee on the profit, the credit to the owner.
CloseSettlement(pos, mark) ==
    LET pnl_msats == calc_unrealized_pnl_msats(pos.side, pos.size_sats,
                                               pos.entry_price_usd, mark)
        raw == pos.collateral_msats + pnl_msats
        insurance_draw == IF raw < 0 THEN Abs(raw) ELSE 0
        settlement0 == IF raw < 0 THEN 0 ELSE raw
        fee_msats == IF settlement0 > pos.collateral_msats
                     THEN ((settlement0 - pos.collateral_msats) * INS_FEE_NUM) \div INS_FEE_DEN
                     ELSE 0
    IN  [pnl_msats |-> pnl_msats, insurance_draw |-> insurance_draw,
         fee_msats |-> fee_msats, settlement |-> settlement0 - fee_msats]

close_position(pubkey, position_id, fetched) ==
    /\ CloseAllowed(pubkey, position_id) \/ fetched = NoPrice
    /\ cache_price' = IF CloseAllowed(pubkey, position_id)
                      THEN get_mark_price(fetched) ELSE cache_price
    /\ cache_ts' = cache_ts_after(fetched, now)
    /\ IF CloseAccepted(pubkey, position_id, fetched)
       THEN LET pos == PositionOf(position_id)
                r == CloseSettlement(pos, get_mark_price(fetched))
                fund1 == IF r.insurance_draw > 0
                         THEN debit_insurance_fund(insurance_fund, r.insurance_draw)
                         ELSE insurance_fund
            IN  /\ insurance_fund' = IF pos.collateral_msats + r.pnl_msats > pos.collateral_msats
                                              /\ r.insurance_draw = 0
                                     THEN credit_insurance_fund(fund1, r.fee_msats)
                                     ELSE fund1
                /\ positions' = positions \ {pos}
                /\ futures_accounts' = IF r.settlement > 0
                                       THEN credit_collateral(futures_accounts, pubkey, r.settlement)
                                       ELSE futures_accounts
                /\ Record("close_position", pubkey, TRUE, position_id)
       ELSE /\ UNCHANGED <<insurance_fund, positions, futures_accounts>>
            /\ Record("close_position", pubkey, FALSE, position_id)
    /\ UNCHANGED <<transactions, processed_transfer_events,
                   accounts, orders, trades, funding_rates, challenges, now,
                   n_transfers,
                   threads, engine_lock>>

(***************************************************************************)
(* funding_rate.py.                                                        *)
(***************************************************************************)
\* The rate without the clamp.
compute_funding_rate_unclamped(mark, index) ==
    IF index <= 0 THEN [num |-> 0, den |-> 1]
    ELSE [num |-> (mark - index) * FUNDING_NUM, den |-> index * FUNDING_DEN]

\* compute_funding_rate(mark, index) as the fraction num / den, den > 0:
\* premium * FUNDING_FACTOR clamped to [-MAX_RATE, MAX_RATE].
compute_funding_rate(mark, index) ==
    IF index <= 0 THEN [num |-> 0, den |-> 1]
    ELSE LET num == (mark - index) * FUNDING_NUM
             den == index * FUNDING_DEN
         IN  IF num * MAX_RATE_DEN > MAX_RATE_NUM * den
             THEN [num |-> MAX_RATE_NUM, den |-> MAX_RATE_DEN]
             ELSE IF num * MAX_RATE_DEN < -(MAX_RATE_NUM * den)
             THEN [num |-> -MAX_RATE_NUM, den |-> MAX_RATE_DEN]
             ELSE [num |-> num, den |-> den]

\* (size_sats, mark, index) on which int(abs(rate) * notional_msats) is one
\* below the exact quotient in double arithmetic.
FundingDust == {<<700, 90, 100>>, <<700, 110, 100>>, <<1000, 90, 100>>,
                <<1000, 110, 100>>, <<1700, 90, 100>>, <<1700, 110, 100>>,
                <<2700, 110, 90>>}

\* payment_msats = int(abs(rate) * notional_msats)
FundingPayment(rate, size_sats, mark, index) ==
    (Abs(rate.num) * NotionalMsats(size_sats, mark)) \div rate.den
      - (IF <<size_sats, mark, index>> \in FundingDust THEN 1 ELSE 0)

\* The position after the funding pass has gone over it.
FundedPosition(pos, rate, mark, index) ==
    LET payment_msats == FundingPayment(rate, pos.size_sats, mark, index)
        pays == IF rate.num > 0 THEN pos.side = "long" ELSE pos.side = "short"
    IN  IF payment_msats = 0 THEN pos
        ELSE IF pays
        THEN [pos EXCEPT !.collateral_msats = Max(0, @ - payment_msats),
                         !.funding_cost_msats = @ + payment_msats]
        ELSE [pos EXCEPT !.collateral_msats = @ + payment_msats,
                         !.funding_cost_msats = @ - payment_msats]

\* apply_funding_for_market.  get_oracle_data reads the index and then the
\* mark price.  A first read that fetched leaves the cache fresh for the
\* second; when the first fell back to the stale cache the second fetches
\* again, and the two differ if that fetch succeeds.
apply_funding_for_market(fetched_index, fetched_mark) ==
    /\ fetched_index = NoPrice \/ fetched_mark = NoPrice
    /\ LET index == get_mark_price(fetched_index)
           mark == IF fetched_mark # NoPrice THEN fetched_mark ELSE index
       IN  /\ cache_price' = mark
           /\ cache_ts' = IF fetched_index # NoPrice THEN now
                          ELSE cache_ts_after(fetched_mark, now)
           /\ IF mark = NoPrice \/ index = NoPrice
              THEN UNCHANGED <<positions, funding_rates>>
              ELSE LET rate == compute_funding_rate(mark, index)
                   IN  /\ positions' = {FundedPosition(pos, rate, mark, index) : pos \in positions}
                       /\ funding_rates' = Append(funding_rates,
                              [rate |-> rate, mark_price_usd |-> mark,
                               index_price_usd |-> index, timestamp |-> now])
           /\ last' = IF mark = NoPrice \/ index = NoPrice THEN last
                      ELSE [NoCall EXCEPT !.op = "funding", !.ok = TRUE]
    /\ UNCHANGED <<transactions, processed_transfer_events,
                   accounts, futures_accounts, orders, trades, insurance_fund,
                   challenges, now, n_transfers,
                   threads, engine_lock>>

(***************************************************************************)
(* liquidation_engine.py.                                                  *)
(***************************************************************************)
\* The decision taking every position for a long.
Liquidatable_taking_long(pos, mark) ==
    /\ mark # NoPrice
    /\ ~MarginRatioAtLeastMaintenance(
            pos.collateral_msats,
            calc_unrealized_pnl_msats("long", pos.size_sats, pos.entry_price_usd, mark),
            pos.size_sats, mark)

\* check_and_liquidate_position decides to liquidate.
Liquidatable_without_mark(pos, mark) ==
    ~MarginRatioAtLeastMaintenance(
        pos.collateral_msats,
        calc_unrealized_pnl_msats(pos.side, pos.size_sats, pos.entry_price_usd, mark),
        pos.size_sats, mark)

Liquidatable(pos, mark) ==
    /\ mark # NoPrice
    /\ ~MarginRatioAtLeastMaintenance(
            pos.collateral_msats,
            calc_unrealized_pnl_msats(pos.side, pos.size_sats, pos.entry_price_usd, mark),
            pos.size_sats, mark)

\* The settlement of a liquidated position: equity, fee, what goes to the
\* fund (negative: drawn from it) and what goes to the owner.
LiquidationSettlement(pos, mark) ==
    LET pnl == calc_unrealized_pnl_msats(pos.side, pos.size_sats, pos.entry_price_usd, mark)
        equity == pos.collateral_msats + pnl
        liq_fee == (NotionalMsats(pos.size_sats, mark) * LIQ_FEE_NUM) \div LIQ_FEE_DEN
    IN  IF equity >= liq_fee
        THEN [equity |-> equity, liq_fee |-> liq_fee, fund_credit |-> liq_fee,
              fund_debit |-> 0, settlement_to_user |-> equity - liq_fee]
        ELSE IF equity > 0
        THEN [equity |-> equity, liq_fee |-> liq_fee, fund_credit |-> equity,
              fund_debit |-> 0, settlement_to_user |-> 0]
        ELSE [equity |-> equity, liq_fee |-> liq_fee, fund_credit |-> 0,
              fund_debit |-> Abs(equity) + liq_fee, settlement_to_user |-> 0]

\* check_and_liquidate_position on the state S = [positions,
\* futures_accounts, insurance_fund].
check_and_liquidate_position(S, pos, mark) ==
    IF ~Liquidatable(pos, mark) THEN S
    ELSE LET r == LiquidationSettlement(pos, mark)
         IN  [positions |-> S.positions \ {pos},
              futures_accounts |->
                  IF r.settlement_to_user > 0
                  THEN credit_collateral(S.futures_accounts, pos.pubkey, r.settlement_to_user)
                  ELSE S.futures_accounts,
              insurance_fund |->
                  IF r.fund_debit > 0 \/ r.equity <= 0
                  THEN debit_insurance_fund(S.insurance_fund, r.fund_debit)
                  ELSE credit_insurance_fund(S.insurance_fund, r.fund_credit)]

\* run_liquidation_scan: every position of the snapshot, in row order.
RECURSIVE ScanFrom(_, _, _, _)
ScanFrom(S, snapshot, id, mark) ==
    IF \A p \in snapshot : p.id < id THEN S
    ELSE IF \E p \in snapshot : p.id = id
    THEN ScanFrom(check_and_liquidate_position(S, CHOOSE p \in snapshot : p.id = id, mark),
                  snapshot, id + 1, mark)
    ELSE ScanFrom(S, snapshot, id + 1, mark)

\* The scan reads the oracle for every position; the reads of one scan
\* fall within one lifetime of the cache.
run_liquidation_scan(fetched) ==
    /\ positions # {}
    /\ cache_price' = get_mark_price(fetched)
    /\ cache_ts' = cache_ts_after(fetched, now)
    /\ LET S == ScanFrom([positions |-> positions, futures_accounts |-> futures_accounts,
                          insurance_fund |-> insurance_fund],
                         positions, 1, get_mark_price(fetched))
       IN  /\ positions' = S.positions
           /\ futures_accounts' = S.futures_accounts
           /\ insurance_fund' = S.insurance_fund
           /\ last' = IF S.positions = positions THEN last
                      ELSE [NoCall EXCEPT !.op = "liquidation", !.ok = TRUE,
                                          !.fund_before = insurance_fund]
    /\ UNCHANGED <<transactions, processed_transfer_events,
                   accounts, orders, trades, funding_rates, challenges, now, n_transfers,
                   threads, engine_lock>>

(***************************************************************************)
(* The system: every handler and job runs to completion, one at a time.    *)
(***************************************************************************)
Next ==
    \/ \E pubkey \in Pubkeys, amount \in LightningAmounts : LightningDeposit(pubkey, amount)
    \/ /\ n_transfers < MaxTransfers
       /\ \E pubkey \in Pubkeys :
             futures_collateral_deposit(StoreFor(pubkey, TRUE), pubkey, 300000,
                 SignedChallenge(StoreFor(pubkey, TRUE), pubkey), 0)
    \/ /\ n_transfers < MaxTransfers
       /\ \E pubkey \in Pubkeys :
             futures_collateral_withdraw(StoreFor(pubkey, TRUE), pubkey, 300000,
                 SignedChallenge(StoreFor(pubkey, TRUE), pubkey), 0)
    \/ /\ Len(orders) < MaxOrders
       /\ \E ev \in OrderEvents({2700}), fetched \in Fetches : place_order(ev, 0, fetched)
    \/ \E pubkey \in Pubkeys, order_id \in 1..MaxOrders, fetched \in Fetches :
          cancel_order(pubkey, order_id, fetched)
    \/ \E pubkey \in Pubkeys, position_id \in 1..(2 * MaxOrders), fetched \in Fetches :
          close_position(pubkey, position_id, fetched)
    \/ /\ Len(funding_rates) < MaxFunding
       /\ \E fetched_index, fetched_mark \in Fetches :
             apply_funding_for_market(fetched_index, fetched_mark)
    \/ \E fetched \in Fetches : run_liquidation_scan(fetched)

Spec == Init /\ [][Next]_vars

(***************************************************************************)
(* The bank alone: paid invoices and collateral moves, with the amounts    *)
(* and the challenges a client can send.                                   *)
(***************************************************************************)
NextBank ==
    \/ \E pubkey \in Pubkeys, amount \in LightningAmounts : LightningDeposit(pubkey, amount)
    \/ /\ n_transfers < MaxBankTransfers
       /\ \E pubkey \in Pubkeys, amount \in Amounts, fresh \in BOOLEAN :
             futures_collateral_deposit(StoreFor(pubkey, fresh), pubkey, amount,
                 SignedChallenge(StoreFor(pubkey, fresh), pubkey), 0)
    \/ /\ n_transfers < MaxBankTransfers
       /\ \E pubkey \in Pubkeys, amount \in Amounts, fresh \in BOOLEAN :
             futures_collateral_withdraw(StoreFor(pubkey, fresh), pubkey, amount,
                 SignedChallenge(StoreFor(pubkey, fresh), pubkey), 0)

SpecBank == Init /\ [][NextBank]_vars

(***************************************************************************)
(* The order book: funded accounts placing orders of both sizes over time. *)
(***************************************************************************)
NextBook ==
    \/ \E pubkey \in Pubkeys, amount \in LightningAmounts : LightningDeposit(pubkey, amount)
    \/ /\ n_transfers < MaxTransfers
       /\ \E pubkey \in Pubkeys :
             futures_collateral_deposit(StoreFor(pubkey, TRUE), pubkey, 300000,
                 SignedChallenge(StoreFor(pubkey, TRUE), pubkey), 0)
    \/ /\ Len(orders) < MaxBookOrders
       /\ \E ev \in OrderEvents(Sizes), elapsed \in {0, 1}, fetched \in Fetches :
             /\ now + elapsed <= MaxNow
             /\ place_order(ev, elapsed, fetched)

SpecBook == Init /\ [][NextBook]_vars

(***************************************************************************)
(* The engine under concurrent requests.  The server handles each request  *)
(* on its own thread; every ledger call is one SQLite transaction, so a    *)
(* thread advances one ledger call at a time and the threads interleave    *)
(* between calls.  Only place_order takes _engine_lock.                    *)
(***************************************************************************)
SetThread(t, th) ==
    threads' = [threads EXCEPT ![t] = th]

\* Orders that calls in flight have yet to persist.
OrdersInFlight ==
    Cardinality({t \in Threads : threads[t].pc \in {"place_lock", "place_debit",
                                                     "place_create"}})

\* place_order up to the lock: validation, reference price, collateral check.
place_begin(t, ev, fetched) ==
    /\ threads[t].pc = "idle"
    /\ ReadsOracle(ev) \/ fetched = NoPrice
    /\ cache_price' = IF ReadsOracle(ev) THEN get_mark_price(fetched) ELSE cache_price
    /\ cache_ts' = cache_ts_after(fetched, now)
    /\ LET ref_price == RefPrice(ev, fetched)
           needed == required_collateral_msats(ev.size_sats, ev.leverage, ref_price,
                                               TAKER_FEE_NUM)
       IN  IF OrderValid(ev) /\ ref_price # NoPrice
              /\ ~(get_collateral_msats(ev.pubkey) < needed)
           THEN SetThread(t, [IdleThread EXCEPT !.pc = "place_lock", !.ev = ev,
                                               !.ref_price = ref_price, !.needed = needed])
           ELSE UNCHANGED threads
    /\ UNCHANGED <<transactions, processed_transfer_events,
                   accounts, futures_accounts, orders, positions, trades, funding_rates,
                   insurance_fund, challenges, now, n_transfers, last, engine_lock>>

place_acquire_unlocked(t) ==
    /\ threads[t].pc = "place_lock"
    /\ engine_lock' = t
    /\ SetThread(t, [threads[t] EXCEPT !.pc = "place_debit"])
    /\ UNCHANGED <<transactions, processed_transfer_events,
                   accounts, futures_accounts, orders, positions, trades, funding_rates,
                   insurance_fund, cache_price, cache_ts, challenges, now, n_transfers, last>>

\* with _engine_lock: entry.
place_acquire(t) ==
    /\ threads[t].pc = "place_lock"
    /\ engine_lock = NoThread
    /\ engine_lock' = t
    /\ SetThread(t, [threads[t] EXCEPT !.pc = "place_debit"])
    /\ UNCHANGED <<transactions, processed_transfer_events,
                   accounts, futures_accounts, orders, positions, trades, funding_rates,
                   insurance_fund, cache_price, cache_ts, challenges, now, n_transfers, last>>

\* ledger.debit_collateral(pubkey, needed); a failure leaves the block.
place_debit(t) ==
    /\ threads[t].pc = "place_debit"
    /\ IF debit_collateral_ok(futures_accounts, threads[t].ev.pubkey, threads[t].needed)
       THEN /\ futures_accounts' = debit_collateral(futures_accounts, threads[t].ev.pubkey,
                                                    threads[t].needed)
            /\ SetThread(t, [threads[t] EXCEPT !.pc = "place_create"])
            /\ UNCHANGED engine_lock
       ELSE /\ SetThread(t, IdleThread)
            /\ engine_lock' = NoThread
            /\ UNCHANGED futures_accounts
    /\ UNCHANGED <<transactions, processed_transfer_events,
                   accounts, orders, positions, trades, funding_rates, insurance_fund,
                   cache_price, cache_ts, challenges, now, n_transfers, last>>

\* ledger.create_order(...)
place_create(t) ==
    /\ threads[t].pc = "place_create"
    /\ orders' = Append(orders, create_order(threads[t].ev, threads[t].ev.price_usd, now))
    /\ SetThread(t, [threads[t] EXCEPT !.pc = "place_snapshot", !.id = Len(orders) + 1])
    /\ UNCHANGED <<transactions, processed_transfer_events,
                   accounts, futures_accounts, positions, trades, funding_rates,
                   insurance_fund, cache_price, cache_ts, challenges, now, n_transfers, last,
                   engine_lock>>

\* _match_order: get_open_orders_for_market and the sort.
place_snapshot(t) ==
    /\ threads[t].pc = "place_snapshot"
    /\ \E resting \in SortedResting(orders, threads[t].ev.side) :
          SetThread(t, [threads[t] EXCEPT !.pc = "place_match", !.resting = resting,
                                          !.rows = RestingRows(orders, resting), !.i = 1,
                                          !.taker_remaining = threads[t].ev.size_sats])
    /\ UNCHANGED <<transactions, processed_transfer_events,
                   accounts, futures_accounts, orders, positions, trades, funding_rates,
                   insurance_fund, cache_price, cache_ts, challenges, now, n_transfers, last,
                   engine_lock>>

\* _match_order: one candidate of the loop, with its _execute_fill.
place_match(t) ==
    /\ threads[t].pc = "place_match"
    /\ LET th == threads[t]
           taker_price == IF th.ev.price_usd # NoPrice THEN th.ev.price_usd
                          ELSE th.ref_price
       IN  IF LoopEnds(orders[th.id], taker_price, th.rows, th.i, th.taker_remaining)
           THEN /\ SetThread(t, [th EXCEPT !.pc = "place_finish"])
                /\ UNCHANGED <<orders, positions, trades>>
           ELSE LET r == MatchOne([orders |-> orders, positions |-> positions,
                                   trades |-> trades],
                                  th.id, th.resting[th.i], th.rows[th.i],
                                  th.taker_remaining, now)
                IN  /\ orders' = r.ledger.orders
                    /\ positions' = r.ledger.positions
                    /\ trades' = r.ledger.trades
                    /\ SetThread(t, [th EXCEPT !.i = th.i + 1,
                                               !.taker_remaining = r.taker_remaining])
    /\ UNCHANGED <<transactions, processed_transfer_events,
                   accounts, futures_accounts, funding_rates, insurance_fund, cache_price, cache_ts,
                   challenges, now, n_transfers, last, engine_lock>>

\* _match_order: the taker's status; the with block ends.
place_finish(t) ==
    /\ threads[t].pc = "place_finish"
    /\ orders' = FinishTaker(orders, threads[t].id, threads[t].taker_remaining)
    /\ engine_lock' = NoThread
    /\ SetThread(t, IdleThread)
    /\ UNCHANGED <<transactions, processed_transfer_events,
                   accounts, futures_accounts, positions, trades, funding_rates,
                   insurance_fund, cache_price, cache_ts, challenges, now, n_transfers, last>>

\* cancel_order: ledger.get_order, the checks, get_mark_price.
cancel_begin(t, pubkey, order_id, fetched) ==
    /\ threads[t].pc = "idle"
    /\ CancelAccepted(pubkey, order_id)
    /\ cache_price' = get_mark_price(fetched)
    /\ cache_ts' = cache_ts_after(fetched, now)
    /\ SetThread(t, [IdleThread EXCEPT !.pc = "cancel_update", !.id = order_id,
                                       !.order = orders[order_id],
                                       !.mark = get_mark_price(fetched)])
    /\ UNCHANGED <<transactions, processed_transfer_events,
                   accounts, futures_accounts, orders, positions, trades, funding_rates,
                   insurance_fund, challenges, now, n_transfers, last, engine_lock>>

\* ledger.update_order_status(order_id, "cancelled")
cancel_update(t) ==
    /\ threads[t].pc = "cancel_update"
    /\ orders' = set_order_status(orders, threads[t].id, "cancelled")
    /\ SetThread(t, [threads[t] EXCEPT !.pc = "cancel_credit"])
    /\ UNCHANGED <<transactions, processed_transfer_events,
                   accounts, futures_accounts, positions, trades, funding_rates,
                   insurance_fund, cache_price, cache_ts, challenges, now, n_transfers, last,
                   engine_lock>>

\* ledger.credit_collateral(pubkey, refund)
cancel_credit(t) ==
    /\ threads[t].pc = "cancel_credit"
    /\ futures_accounts' = credit_collateral(futures_accounts, threads[t].order.pubkey,
                                CancelRefund(threads[t].order, threads[t].mark))
    /\ SetThread(t, IdleThread)
    /\ UNCHANGED <<transactions, processed_transfer_events,
                   accounts, orders, positions, trades, funding_rates, insurance_fund,
                   cache_price, cache_ts, challenges, now, n_transfers, last, engine_lock>>

\* close_position: ledger.get_position, the checks, get_mark_price.
close_begin(t, pubkey, position_id, fetched) ==
    /\ threads[t].pc = "idle"
    /\ CloseAllowed(pubkey, position_id)
    /\ cache_price' = get_mark_price(fetched)
    /\ cache_ts' = cache_ts_after(fetched, now)
    /\ IF get_mark_price(fetched) # NoPrice
       THEN SetThread(t, [IdleThread EXCEPT !.pc = "close_fund",
                                           !.position = PositionOf(position_id),
                                           !.mark = get_mark_price(fetched)])
       ELSE UNCHANGED threads
    /\ UNCHANGED <<transactions, processed_transfer_events,
                   accounts, futures_accounts, orders, positions, trades, funding_rates,
                   insurance_fund, challenges, now, n_transfers, last, engine_lock>>

\* close_position: the draw on, or the fee to, the insurance fund.
close_fund(t) ==
    /\ threads[t].pc = "close_fund"
    /\ LET pos == threads[t].position
           r == CloseSettlement(pos, threads[t].mark)
       IN  insurance_fund' =
               IF r.insurance_draw > 0
               THEN debit_insurance_fund(insurance_fund, r.insurance_draw)
               ELSE IF pos.collateral_msats + r.pnl_msats > pos.collateral_msats
               THEN credit_insurance_fund(insurance_fund, r.fee_msats)
               ELSE insurance_fund
    /\ SetThread(t, [threads[t] EXCEPT !.pc = "close_delete"])
    /\ UNCHANGED <<transactions, processed_transfer_events,
                   accounts, futures_accounts, orders, positions, trades, funding_rates,
                   cache_price, cache_ts, challenges, now, n_transfers, last, engine_lock>>

\* ledger.close_position(position_id): the row is deleted by its id; the
\* call returns whether a row was deleted, which close_position drops.
close_delete(t) ==
    /\ threads[t].pc = "close_delete"
    /\ positions' = {p \in positions : p.id # threads[t].position.id}
    /\ SetThread(t, [threads[t] EXCEPT !.pc = "close_credit",
                                       !.deleted = \E p \in positions :
                                                       p.id = threads[t].position.id])
    /\ UNCHANGED <<transactions, processed_transfer_events,
                   accounts, futures_accounts, orders, trades, funding_rates,
                   insurance_fund, cache_price, cache_ts, challenges, now, n_transfers, last,
                   engine_lock>>

\* ledger.credit_collateral(pubkey, settlement) when settlement > 0.
close_credit(t) ==
    /\ threads[t].pc = "close_credit"
    /\ LET pos == threads[t].position
           r == CloseSettlement(pos, threads[t].mark)
       IN  futures_accounts' = IF r.settlement > 0
                               THEN credit_collateral(futures_accounts, pos.pubkey,
                                                      r.settlement)
                               ELSE futures_accounts
    /\ SetThread(t, IdleThread)
    /\ UNCHANGED <<transactions, processed_transfer_events,
                   accounts, orders, positions, trades, funding_rates, insurance_fund,
                   cache_price, cache_ts, challenges, now, n_transfers, last, engine_lock>>

NextConc ==
    \/ \E pubkey \in Pubkeys, amount \in LightningAmounts : LightningDeposit(pubkey, amount)
    \/ /\ n_transfers < MaxTransfers
       /\ \E pubkey \in Pubkeys :
             futures_collateral_deposit(StoreFor(pubkey, TRUE), pubkey, 300000,
                 SignedChallenge(StoreFor(pubkey, TRUE), pubkey), 0)
    \/ /\ Len(orders) + OrdersInFlight < MaxOrders
       /\ \E t \in Threads, ev \in OrderEvents({2700}), fetched \in {NoPrice, 100} :
             place_begin(t, ev, fetched)
    \/ \E t \in Threads : place_acquire(t)
    \/ \E t \in Threads : place_debit(t)
    \/ \E t \in Threads : place_create(t)
    \/ \E t \in Threads : place_snapshot(t)
    \/ \E t \in Threads : place_match(t)
    \/ \E t \in Threads : place_finish(t)
    \/ \E t \in Threads, pubkey \in Pubkeys, order_id \in 1..MaxOrders, fetched \in {NoPrice, 100} :
          cancel_begin(t, pubkey, order_id, fetched)
    \/ \E t \in Threads : cancel_update(t)
    \/ \E t \in Threads : cancel_credit(t)
    \/ \E t \in Threads, pubkey \in Pubkeys, position_id \in 1..(2 * MaxOrders),
          fetched \in {NoPrice, 100} : close_begin(t, pubkey, position_id, fetched)
    \/ \E t \in Threads : close_fund(t)
    \/ \E t \in Threads : close_delete(t)
    \/ \E t \in Threads : close_credit(t)

SpecConc == Init /\ [][NextConc]_vars

(***************************************************************************)
(* place_order alone under concurrent requests: takers of both sizes       *)
(* arriving together at a book with resting limit orders.                  *)
(***************************************************************************)
MatchEvents ==
    [pubkey : Pubkeys, market : MARKETS, side : Sides, order_type : {"limit"},
     size_sats : Sizes, price_usd : {100}, leverage : Leverages]

NextMatch ==
    \/ \E pubkey \in Pubkeys, amount \in LightningAmounts : LightningDeposit(pubkey, amount)
    \/ /\ n_transfers < MaxTransfers
       /\ \E pubkey \in Pubkeys :
             futures_collateral_deposit(StoreFor(pubkey, TRUE), pubkey, 300000,
                 SignedChallenge(StoreFor(pubkey, TRUE), pubkey), 0)
    \/ /\ Len(orders) + OrdersInFlight < MaxBookOrders
       /\ \E t \in Threads, ev \in MatchEvents : place_begin(t, ev, NoPrice)
    \/ \E t \in Threads : place_acquire(t)
    \/ \E t \in Threads : place_debit(t)
    \/ \E t \in Threads : place_create(t)
    \/ \E t \in Threads : place_snapshot(t)
    \/ \E t \in Threads : place_match(t)
    \/ \E t \in Threads : place_finish(t)

SpecMatch == Init /\ [][NextMatch]_vars

(***************************************************************************)
(* futures_ledger.debit_collateral under concurrent requests.  Every call  *)
(* opens its own connection; the SELECT of the balance runs before the     *)
(* connection has begun a transaction, which the UPDATE opens, so another  *)
(* connection may commit between the two statements.  The withdrawal       *)
(* endpoint calls it outside _engine_lock, place_order inside.  (In the    *)
(* runs above, place_debit takes the two statements as one step: no other  *)
(* debit runs there.)                                                      *)
(***************************************************************************)
WithdrawAmounts == {200000}

DebitEvents ==
    [pubkey : Pubkeys, market : MARKETS, side : Sides, order_type : {"limit"},
     size_sats : {2700}, price_usd : {100}, leverage : Leverages]

\* Calls of place_order that have passed validation and not yet stored the order.
ReservationsInFlight ==
    Cardinality({t \in Threads : threads[t].pc \in {"place_lock", "place_debit",
                                                     "place_debit_update",
                                                     "place_create"}})

\* futures_collateral_withdraw up to debit_collateral: the challenge.
withdraw_begin(t, store, pubkey, amount_msats) ==
    /\ threads[t].pc = "idle"
    /\ n_transfers' = n_transfers + 1
    /\ challenges' = IF amount_msats # 0 THEN pop(store, pubkey) ELSE store
    /\ IF amount_msats # 0
          /\ ChallengeVerified(store, pubkey, SignedChallenge(store, pubkey), now)
       THEN SetThread(t, [IdleThread EXCEPT !.pc = "withdraw_debit",
                                           !.ev = [NoEvent EXCEPT !.pubkey = pubkey],
                                           !.needed = amount_msats])
       ELSE UNCHANGED threads
    /\ UNCHANGED <<transactions, processed_transfer_events,
                   accounts, futures_accounts, orders, positions, trades, funding_rates,
                   insurance_fund, cache_price, cache_ts, now, last, engine_lock>>

\* debit_collateral: the SELECT and the comparison; None when it fails.
debit_select(t) ==
    /\ threads[t].pc \in {"withdraw_debit", "place_debit"}
    /\ IF debit_collateral_ok(futures_accounts, threads[t].ev.pubkey, threads[t].needed)
       THEN /\ SetThread(t, [threads[t] EXCEPT !.pc =
                                IF @ = "place_debit" THEN "place_debit_update"
                                ELSE "withdraw_debit_update"])
            /\ UNCHANGED engine_lock
       ELSE /\ SetThread(t, IdleThread)
            /\ engine_lock' = IF threads[t].pc = "place_debit" THEN NoThread
                              ELSE engine_lock
    /\ UNCHANGED <<transactions, processed_transfer_events,
                   accounts, futures_accounts, orders, positions, trades, funding_rates,
                   insurance_fund, cache_price, cache_ts, challenges, now, n_transfers, last>>

\* debit_collateral: the UPDATE and the commit.
debit_update(t) ==
    /\ threads[t].pc \in {"withdraw_debit_update", "place_debit_update"}
    /\ futures_accounts' = debit_collateral(futures_accounts, threads[t].ev.pubkey,
                                            threads[t].needed)
    /\ SetThread(t, [threads[t] EXCEPT !.pc =
                        IF @ = "place_debit_update" THEN "place_create"
                        ELSE "withdraw_credit"])
    /\ UNCHANGED <<transactions, processed_transfer_events,
                   accounts, orders, positions, trades, funding_rates, insurance_fund,
                   cache_price, cache_ts, challenges, now, n_transfers, last, engine_lock>>

\* futures_collateral_withdraw: credit_deposit on the bank ledger.
withdraw_credit(t) ==
    /\ threads[t].pc = "withdraw_credit"
    /\ accounts' = credit_deposit(accounts, threads[t].ev.pubkey, threads[t].needed)
    /\ Record("collateral_withdraw", threads[t].ev.pubkey, TRUE, threads[t].needed)
    /\ SetThread(t, IdleThread)
    /\ UNCHANGED <<transactions, processed_transfer_events,
                   futures_accounts, orders, positions, trades, funding_rates,
                   insurance_fund, cache_price, cache_ts, challenges, now, n_transfers,
                   engine_lock>>

NextDebit ==
    \/ \E pubkey \in Pubkeys, amount \in LightningAmounts : LightningDeposit(pubkey, amount)
    \/ /\ n_transfers < MaxBankTransfers
       /\ \E pubkey \in Pubkeys :
             futures_collateral_deposit(StoreFor(pubkey, TRUE), pubkey, 300000,
                 SignedChallenge(StoreFor(pubkey, TRUE), pubkey), 0)
    \/ /\ n_transfers < MaxBankTransfers
       /\ \E t \in Threads, pubkey \in Pubkeys, amount \in WithdrawAmounts :
             withdraw_begin(t, StoreFor(pubkey, TRUE), pubkey, amount)
    \/ /\ Len(orders) + ReservationsInFlight < MaxOrders
       /\ \E t \in Threads, ev \in DebitEvents : place_begin(t, ev, NoPrice)
    \/ \E t \in Threads : place_acquire(t)
    \/ \E t \in Threads : debit_select(t)
    \/ \E t \in Threads : debit_update(t)
    \/ \E t \in Threads : withdraw_credit(t)
    \/ \E t \in Threads : place_create(t)
    \/ \E t \in Threads : place_snapshot(t)
    \/ \E t \in Threads : place_match(t)
    \/ \E t \in Threads : place_finish(t)

SpecDebit == Init /\ [][NextDebit]_vars

(***************************************************************************)
(* place_order and cancel_order under concurrent requests at a book where  *)
(* orders of two sizes meet, so that fills leave an order partly filled.   *)
(***************************************************************************)
NextPartial ==
    \/ \E pubkey \in Pubkeys, amount \in LightningAmounts : LightningDeposit(pubkey, amount)
    \/ /\ n_transfers < MaxTransfers
       /\ \E pubkey \in Pubkeys :
             futures_collateral_deposit(StoreFor(pubkey, TRUE), pubkey, 300000,
                 SignedChallenge(StoreFor(pubkey, TRUE), pubkey), 0)
    \/ /\ Len(orders) + OrdersInFlight < MaxBookOrders
       /\ \E t \in Threads, ev \in MatchEvents : place_begin(t, ev, NoPrice)
    \/ \E t \in Threads : place_acquire(t)
    \/ \E t \in Threads : place_debit(t)
    \/ \E t \in Threads : place_create(t)
    \/ \E t \in Threads : place_snapshot(t)
    \/ \E t \in Threads : place_match(t)
    \/ \E t \in Threads : place_finish(t)
    \/ \E t \in Threads, pubkey \in Pubkeys, order_id \in 1..MaxBookOrders :
          cancel_begin(t, pubkey, order_id, NoPrice)
    \/ \E t \in Threads : cancel_update(t)
    \/ \E t \in Threads : cancel_credit(t)

SpecPartial == Init /\ [][NextPartial]_vars

(***************************************************************************)
(* The liquidation scan at mark prices on either side of the stored        *)
(* liquidation prices: positions entered at 200 USD with leverage 10       *)
(* (liquidation prices 190 and 210) and 20 (200 for both sides).  Funding  *)
(* passes in between charge the longs, at the capped rate when the index   *)
(* read is far below the mark.                                             *)
(***************************************************************************)
MaxLiqPasses == 2       \* funding rows recorded in a run of the scan

LiqEvents ==
    [pubkey : Pubkeys, market : MARKETS, side : Sides, order_type : {"limit"},
     size_sats : {2700}, price_usd : {200}, leverage : {10, MAX_LEVERAGE}]

LiqMarks == {189, 191, 199, 201, 209, 211}

LiqFundingFetches == {<<4, NoPrice>>, <<NoPrice, 191>>, <<NoPrice, 201>>}

NextLiq ==
    \/ \E pubkey \in Pubkeys, amount \in LightningAmounts : LightningDeposit(pubkey, amount)
    \/ /\ n_transfers < MaxTransfers
       /\ \E pubkey \in Pubkeys :
             futures_collateral_deposit(StoreFor(pubkey, TRUE), pubkey, 300000,
                 SignedChallenge(StoreFor(pubkey, TRUE), pubkey), 0)
    \/ /\ Len(orders) < MaxOrders
       /\ \E ev \in LiqEvents : place_order(ev, 0, NoPrice)
    \/ /\ Len(funding_rates) < MaxLiqPasses
       /\ \E fetched \in LiqFundingFetches : apply_funding_for_market(fetched[1], fetched[2])
    \/ \E fetched \in LiqMarks : run_liquidation_scan(fetched)

SpecLiq == Init /\ [][NextLiq]_vars

(***************************************************************************)
(* futures_ledger.get_ohlcv behind GET /api/futures/ohlcv/<symbol>: the    *)
(* candles of the trades table for a `since` and a bucket width the        *)
(* client chooses.                                                         *)
(***************************************************************************)
MaxCandleOrders == 4    \* orders persisted in a run of the chart
MaxCandleNow == 3       \* the clock stops advancing here in that run

CandleEvents ==
    [pubkey : Pubkeys, market : MARKETS, side : Sides, order_type : {"limit"},
     size_sats : {1000}, price_usd : Prices, leverage : Leverages]

BucketSeconds == {2}

\* (timestamp / ?) * ? on SQLite integers
BucketOf(timestamp, bucket_seconds) == (timestamp \div bucket_seconds) * bucket_seconds

\* FROM trades t WHERE market = ? AND timestamp >= ? GROUP BY bucket: the
\* rows of one group.
GroupRows(trs, since, bucket_seconds, bucket) ==
    {k \in 1..Len(trs) : /\ trs[k].timestamp >= since
                         /\ BucketOf(trs[k].timestamp, bucket_seconds) = bucket}

\* FROM trades t2 WHERE t2.market = ? AND (t2.timestamp / ?) = (t.timestamp / ?):
\* the rows the subqueries for open and close order by timestamp.
SubqueryRows(trs, bucket_seconds, bucket) ==
    {k \in 1..Len(trs) : trs[k].timestamp \div bucket_seconds = bucket \div bucket_seconds}

\* ORDER BY timestamp ASC LIMIT 1 and ORDER BY timestamp DESC LIMIT 1: the
\* rows either may return; SQL leaves the choice among equal timestamps open.
EarliestRows(trs, rows) ==
    {k \in rows : \A j \in rows : trs[k].timestamp <= trs[j].timestamp}

LatestRows(trs, rows) ==
    {k \in rows : \A j \in rows : trs[k].timestamp >= trs[j].timestamp}

\* SUM(size_sats)
RECURSIVE SumSizes(_, _)
SumSizes(trs, rows) ==
    IF rows = {} THEN 0
    ELSE LET k == CHOOSE k \in rows : TRUE
         IN  trs[k].size_sats + SumSizes(trs, rows \ {k})

\* MAX(price_usd), MIN(price_usd)
MaxPrice(trs, rows) == CHOOSE p \in {trs[k].price_usd : k \in rows} :
                           \A k \in rows : trs[k].price_usd <= p
MinPrice(trs, rows) == CHOOSE p \in {trs[k].price_usd : k \in rows} :
                           \A k \in rows : trs[k].price_usd >= p

\* get_ohlcv(market, since, bucket_seconds): the results the query may
\* return, each a function from the buckets, in ascending order, to their
\* candles.
get_ohlcv(trs, since, bucket_seconds) ==
    LET buckets == {BucketOf(trs[k].timestamp, bucket_seconds) :
                        k \in {j \in 1..Len(trs) : trs[j].timestamp >= since}}
        picks == {pick \in [buckets -> (1..Len(trs)) \X (1..Len(trs))] :
                     \A b \in buckets :
                        /\ pick[b][1] \in EarliestRows(trs, SubqueryRows(trs, bucket_seconds, b))
                        /\ pick[b][2] \in LatestRows(trs, SubqueryRows(trs, bucket_seconds, b))}
    IN  {[b \in buckets |->
            [bucket |-> b,
             open |-> trs[pick[b][1]].price_usd,
             high |-> MaxPrice(trs, GroupRows(trs, since, bucket_seconds, b)),
             low |-> MinPrice(trs, GroupRows(trs, since, bucket_seconds, b)),
             close |-> trs[pick[b][2]].price_usd,
             volume |-> SumSizes(trs, GroupRows(trs, since, bucket_seconds, b))]] :
         pick \in picks}

\* futures_ohlcv: the request and the candles it was answered with.
futures_ohlcv(since, bucket_seconds) ==
    /\ \E candles \in get_ohlcv(trades, since, bucket_seconds) :
          last' = [NoCall EXCEPT !.op = "ohlcv", !.ok = TRUE,
                                 !.arg = [since |-> since,
                                          bucket_seconds |-> bucket_seconds,
                                          candles |-> candles]]
    /\ UNCHANGED <<accounts, transactions, processed_transfer_events, futures_accounts,
                   orders, positions, trades, funding_rates, insurance_fund, cache_price,
                   cache_ts, challenges, now, n_transfers, threads, engine_lock>>

NextCandles ==
    \/ \E pubkey \in Pubkeys, amount \in LightningAmounts : LightningDeposit(pubkey, amount)
    \/ /\ n_transfers < MaxTransfers
       /\ \E pubkey \in Pubkeys :
             futures_collateral_deposit(StoreFor(pubkey, TRUE), pubkey, 300000,
                 SignedChallenge(StoreFor(pubkey, TRUE), pubkey), 0)
    \/ /\ Len(orders) < MaxCandleOrders
       /\ \E ev \in CandleEvents, elapsed \in {0, 1} :
             /\ now + elapsed <= MaxCandleNow
             /\ place_order(ev, elapsed, NoPrice)
    \/ \E since \in 0..MaxCandleNow, bucket_seconds \in BucketSeconds :
          futures_ohlcv(since, bucket_seconds)

SpecCandles == Init /\ [][NextCandles]_vars

(***************************************************************************)
(* app.py: transfer, and ledger.transfer_internal, under concurrent        *)
(* requests.  The balance check of transfer_internal is a SELECT outside   *)
(* the write transaction; the writes from the first UPDATE to the commit   *)
(* are one SQLite transaction, which is rolled back when a statement       *)
(* raises.                                                                 *)
(***************************************************************************)
TransferAmounts == {0, 100000}
TransferTags == {0, 1}

\* The requests a client can send: every event is validly signed by its
\* pubkey, with the id it hashes to or with another id.
TransferRequests ==
    {[event |-> e, id |-> [event |-> e, tag |-> tag]] :
        e \in [pubkey : Pubkeys, to_pubkey : Pubkeys, amount_msats : TransferAmounts],
        tag \in TransferTags}

\* transfer up to the call of transfer_internal: the signature is verified
\* over the signed fields, the id of the request is looked up in the
\* processed set, the content is checked.
TransferAdmitted(request) ==
    /\ request.id \notin processed_transfer_events
    /\ request.event.amount_msats > 0

transfer_begin(t, request) ==
    /\ threads[t].pc = "idle"
    /\ IF TransferAdmitted(request)
       THEN SetThread(t, [IdleThread EXCEPT !.pc = "transfer_select", !.request = request])
       ELSE UNCHANGED threads
    /\ UNCHANGED <<accounts, transactions, processed_transfer_events, futures_accounts,
                   orders, positions, trades, funding_rates, insurance_fund, cache_price,
                   cache_ts, challenges, now, n_transfers, last, engine_lock>>

\* transfer_internal: the early returns and the SELECT of the sender's row.
TransferCovered(event) ==
    /\ event.pubkey # event.to_pubkey
    /\ event.amount_msats > 0
    /\ event.pubkey \in DOMAIN accounts
    /\ ~(accounts[event.pubkey] < event.amount_msats)

transfer_select(t) ==
    /\ threads[t].pc = "transfer_select"
    /\ IF TransferCovered(threads[t].request.event)
       THEN SetThread(t, [threads[t] EXCEPT !.pc = "transfer_write"])
       ELSE SetThread(t, IdleThread)
    /\ UNCHANGED <<accounts, transactions, processed_transfer_events, futures_accounts,
                   orders, positions, trades, funding_rates, insurance_fund, cache_price,
                   cache_ts, challenges, now, n_transfers, last, engine_lock>>

\* The INSERTs into transactions succeed: "<id>-debit" and "<id>-credit"
\* are new primary keys.
TransactionIdsNew(rows, id) == id \notin rows

\* transfer_internal: the write transaction.  The sender's row is debited
\* by the amount, the recipient's row credited or inserted, and the two
\* transactions rows inserted; a primary key that exists raises, and the
\* transaction is rolled back.
transfer_write(t) ==
    /\ threads[t].pc = "transfer_write"
    /\ LET request == threads[t].request
           event == request.event
       IN  IF TransactionIdsNew(transactions, request.id)
           THEN /\ accounts' = credit_deposit(
                                   debit_withdrawal(accounts, event.pubkey, event.amount_msats),
                                   event.to_pubkey, event.amount_msats)
                /\ transactions' = transactions \cup {request.id}
                /\ SetThread(t, [threads[t] EXCEPT !.pc = "transfer_add"])
                /\ Record("transfer", event.pubkey, TRUE, event.amount_msats)
           ELSE /\ UNCHANGED <<accounts, transactions>>
                /\ SetThread(t, IdleThread)
                /\ last' = Call("transfer_conflict", event.pubkey, FALSE, event.amount_msats)
    /\ UNCHANGED <<processed_transfer_events, futures_accounts,
                   orders, positions, trades, funding_rates, insurance_fund, cache_price,
                   cache_ts, challenges, now, n_transfers, engine_lock>>

\* _processed_transfer_events.add(event_id)
transfer_add(t) ==
    /\ threads[t].pc = "transfer_add"
    /\ processed_transfer_events' = processed_transfer_events \cup {threads[t].request.id}
    /\ SetThread(t, IdleThread)
    /\ UNCHANGED <<accounts, transactions, futures_accounts,
                   orders, positions, trades, funding_rates, insurance_fund, cache_price,
                   cache_ts, challenges, now, n_transfers, last, engine_lock>>

NextTransfer ==
    \/ \E pubkey \in Pubkeys, amount \in LightningAmounts : LightningDeposit(pubkey, amount)
    \/ \E t \in Threads, request \in TransferRequests : transfer_begin(t, request)
    \/ \E t \in Threads : transfer_select(t)
    \/ \E t \in Threads : transfer_write(t)
    \/ \E t \in Threads : transfer_add(t)

SpecTransfer == Init /\ [][NextTransfer]_vars

(***************************************************************************)
(* Risk: positions are opened, closed by their owners and liquidated by    *)
(* the scan while the oracle also reports a crash; clients also submit     *)
(* order events that the engine must reject.                               *)
(***************************************************************************)
CrashFetches == Fetches \cup CrashPrices

\* Order events with one parameter the engine does not accept.
BadOrderEvents ==
    UNION {{[ev EXCEPT !.market = "ETH-USD-PERP"], [ev EXCEPT !.side = "buy"],
            [ev EXCEPT !.order_type = "stop"], [ev EXCEPT !.size_sats = 0],
            [ev EXCEPT !.leverage = 0], [ev EXCEPT !.leverage = MAX_LEVERAGE + 1],
            [ev EXCEPT !.price_usd = NoPrice]} :
           ev \in [pubkey : Pubkeys, market : MARKETS, side : {"long"},
                   order_type : {"limit"}, size_sats : {2700}, price_usd : {100},
                   leverage : Leverages]}

NextRisk ==
    \/ \E pubkey \in Pubkeys, amount \in LightningAmounts : LightningDeposit(pubkey, amount)
    \/ /\ n_transfers < MaxTransfers
       /\ \E pubkey \in Pubkeys :
             futures_collateral_deposit(StoreFor(pubkey, TRUE), pubkey, 300000,
                 SignedChallenge(StoreFor(pubkey, TRUE), pubkey), 0)
    \/ /\ Len(orders) < MaxOrders
       /\ \E ev \in OrderEvents({2700}) \cup BadOrderEvents, fetched \in CrashFetches :
             place_order(ev, 0, fetched)
    \/ \E pubkey \in Pubkeys, position_id \in 1..(2 * MaxOrders), fetched \in CrashFetches :
          close_position(pubkey, position_id, fetched)
    \/ \E fetched \in CrashFetches : run_liquidation_scan(fetched)

SpecRisk == Init /\ [][NextRisk]_vars

(***************************************************************************)
(* Order parameters: besides the usual events, clients submit market       *)
(* orders whose content carries a price_usd, which futures_place_order     *)
(* hands to place_order as it is.                                          *)
(***************************************************************************)
PricedMarketEvents ==
    [pubkey : Pubkeys, market : MARKETS, side : Sides, order_type : {"market"},
     size_sats : {2700}, price_usd : Prices, leverage : Leverages]

NextParams ==
    \/ \E pubkey \in Pubkeys, amount \in LightningAmounts : LightningDeposit(pubkey, amount)
    \/ /\ n_transfers < MaxTransfers
       /\ \E pubkey \in Pubkeys :
             futures_collateral_deposit(StoreFor(pubkey, TRUE), pubkey, 300000,
                 SignedChallenge(StoreFor(pubkey, TRUE), pubkey), 0)
    \/ /\ Len(orders) < MaxOrders
       /\ \E ev \in OrderEvents({2700}) \cup PricedMarketEvents, fetched \in Fetches :
             place_order(ev, 0, fetched)

SpecParams == Init /\ [][NextParams]_vars

(***************************************************************************)
(* Margin: limit orders of two leverages meet, and the funding job runs    *)
(* over the positions they open.                                           *)
(***************************************************************************)
MarginLeverages == {5, 10}

LeveragedEvents ==
    [pubkey : Pubkeys, market : MARKETS, side : Sides, order_type : {"limit"},
     size_sats : {1000}, price_usd : Prices, leverage : MarginLeverages]

NextMargin ==
    \/ \E pubkey \in Pubkeys, amount \in LightningAmounts : LightningDeposit(pubkey, amount)
    \/ /\ n_transfers < MaxTransfers
       /\ \E pubkey \in Pubkeys :
             futures_collateral_deposit(StoreFor(pubkey, TRUE), pubkey, 300000,
                 SignedChallenge(StoreFor(pubkey, TRUE), pubkey), 0)
    \/ /\ Len(orders) < MaxOrders
       /\ \E ev \in LeveragedEvents : place_order(ev, 0, NoPrice)
    \/ /\ Len(funding_rates) < MaxFunding
       /\ \E fetched_index, fetched_mark \in Fetches :
             apply_funding_for_market(fetched_index, fetched_mark)

SpecMargin == Init /\ [][NextMargin]_vars

(***************************************************************************)
(* Exhausted collateral: positions at the highest leverage, and funding    *)
(* passes in which the oracle first answers a low index price and then,    *)
(* for the mark price, one far above it, so that the rate is at its cap    *)
(* pass after pass; the liquidation scan runs in between.                  *)
(***************************************************************************)
ClampEvents ==
    [pubkey : Pubkeys, market : MARKETS, side : Sides, order_type : {"limit"},
     size_sats : {1000}, price_usd : {100}, leverage : {MAX_LEVERAGE}]

\* What the two reads of the oracle fetch in a pass: a low price that both
\* reads answer, or nothing for the index and a high price for the mark.
\* Upstream swings between the two: the price fetched is never the cached one.
ClampFetches ==
    {fetched \in {<<4, NoPrice>>, <<NoPrice, 110>>} :
        \A i \in 1..2 : fetched[i] = NoPrice \/ fetched[i] # cache_price}

NextClamp ==
    \/ \E pubkey \in Pubkeys, amount \in LightningAmounts : LightningDeposit(pubkey, amount)
    \/ /\ n_transfers < MaxTransfers
       /\ \E pubkey \in Pubkeys :
             futures_collateral_deposit(StoreFor(pubkey, TRUE), pubkey, 300000,
                 SignedChallenge(StoreFor(pubkey, TRUE), pubkey), 0)
    \/ /\ Len(orders) < MaxOrders
       /\ \E ev \in ClampEvents : place_order(ev, 0, NoPrice)
    \/ /\ Len(funding_rates) < MaxClampPasses
       /\ \E fetched \in ClampFetches : apply_funding_for_market(fetched[1], fetched[2])
    \/ \E fetched \in {NoPrice, 110} : run_liquidation_scan(fetched)

SpecClamp == Init /\ [][NextClamp]_vars

(***************************************************************************)
(* The background jobs while the oracle has no price.  The price cache     *)
(* starts empty, and a read that fetches nothing then returns None: the   *)
(* funding pass returns before it looks at a position, and the scan, which *)
(* reads the oracle once per position, skips the positions read before the *)
(* first fetch that succeeds.                                              *)
(***************************************************************************)
MaxSkipOrders == 4      \* orders persisted in a run of the jobs without a price
MaxSkipPasses == 2      \* funding rows recorded in a run of the jobs without a price

\* What the oracle fetches for the reads of a scan, one per position.
ScanPrices == {NoPrice} \cup CrashPrices
ScanReads == [{pos.id : pos \in positions} -> ScanPrices]

\* get_mark_price(pos["market"]) for the position read after the cache held
\* `cache`: the fetched price, or the cached one when the fetch fails.
ScanMark(cache, fetched) == IF fetched # NoPrice THEN fetched ELSE cache

\* run_liquidation_scan: the loop over the positions selected at its start,
\* in the order of their insertion, each with its own read of the oracle.
RECURSIVE ScanEach(_, _, _, _, _)
ScanEach(S, snapshot, id, cache, reads) ==
    IF \A p \in snapshot : p.id < id THEN [ledger |-> S, cache_price |-> cache]
    ELSE IF \E p \in snapshot : p.id = id
    THEN LET mark == ScanMark(cache, reads[id])
         IN  ScanEach(check_and_liquidate_position(S, CHOOSE p \in snapshot : p.id = id, mark),
                      snapshot, id + 1, mark, reads)
    ELSE ScanEach(S, snapshot, id + 1, cache, reads)

run_liquidation_scan_each(reads) ==
    /\ positions # {}
    /\ LET R == ScanEach([positions |-> positions, futures_accounts |-> futures_accounts,
                          insurance_fund |-> insurance_fund],
                         positions, 1, cache_price, reads)
       IN  /\ positions' = R.ledger.positions
           /\ futures_accounts' = R.ledger.futures_accounts
           /\ insurance_fund' = R.ledger.insurance_fund
           /\ cache_price' = R.cache_price
           /\ cache_ts' = IF \E id \in DOMAIN reads : reads[id] # NoPrice THEN now
                          ELSE cache_ts
           /\ last' = IF R.ledger.positions = positions THEN last
                      ELSE [NoCall EXCEPT !.op = "liquidation", !.ok = TRUE,
                                          !.fund_before = insurance_fund]
    /\ UNCHANGED <<transactions, processed_transfer_events,
                   accounts, orders, trades, funding_rates, challenges, now, n_transfers,
                   threads, engine_lock>>

\* What the two reads of the oracle fetch in a funding pass: nothing, a
\* price for the mark only, or a price for the index that the mark read
\* finds in the cache.
SkipFetches == {<<NoPrice, NoPrice>>, <<NoPrice, 110>>, <<100, NoPrice>>}

NextSkip ==
    \/ \E pubkey \in Pubkeys, amount \in LightningAmounts : LightningDeposit(pubkey, amount)
    \/ /\ n_transfers < MaxTransfers
       /\ \E pubkey \in Pubkeys :
             futures_collateral_deposit(StoreFor(pubkey, TRUE), pubkey, 300000,
                 SignedChallenge(StoreFor(pubkey, TRUE), pubkey), 0)
    \/ /\ Len(orders) < MaxSkipOrders
       /\ \E ev \in ClampEvents : place_order(ev, 0, NoPrice)
    \/ /\ Len(funding_rates) < MaxSkipPasses
       /\ \E fetched \in SkipFetches : apply_funding_for_market(fetched[1], fetched[2])
    \/ \E reads \in ScanReads : run_liquidation_scan_each(reads)

SpecSkip == Init /\ [][NextSkip]_vars

(***************************************************************************)
(* The oracle alone: reads of the index price as time goes by, with an     *)
(* upstream that answers or fails.                                         *)
(***************************************************************************)
OracleElapsed == {0, 1, 29, 30}

NextOracle ==
    \E elapsed \in OracleElapsed, upstream \in Fetches :
        /\ now + elapsed <= MaxOracleNow
        /\ call_get_index_price(elapsed, upstream)

SpecOracle == Init /\ [][NextOracle]_vars

(***************************************************************************)
(* The challenge exchange alone: clients fetch challenges and send signed  *)
(* collateral moves; time passes between the calls.  A call carries the    *)
(* event its client signs for the stored challenge, or the event of the    *)
(* last accepted call, which whoever saw that request can send again.      *)
(***************************************************************************)
AuthAmounts == {100000}
CallElapsed == {0, 300, 301}

SentEvents(pubkey) == {SignedChallenge(challenges, pubkey), last.signed}

NextAuth ==
    \/ \E pubkey \in Pubkeys, amount \in LightningAmounts : LightningDeposit(pubkey, amount)
    \/ \E pubkey \in Pubkeys : get_challenge(pubkey)
    \/ /\ n_transfers < MaxAuthTransfers
       /\ \E pubkey \in Pubkeys, amount \in AuthAmounts, elapsed \in CallElapsed :
             /\ now + elapsed <= MaxAuthNow
             /\ \E signed_challenge \in SentEvents(pubkey) :
                   futures_collateral_deposit(challenges, pubkey, amount,
                                              signed_challenge, elapsed)
    \/ /\ n_transfers < MaxAuthTransfers
       /\ \E pubkey \in Pubkeys, amount \in AuthAmounts, elapsed \in CallElapsed :
             /\ now + elapsed <= MaxAuthNow
             /\ \E signed_challenge \in SentEvents(pubkey) :
                   futures_collateral_withdraw(challenges, pubkey, amount,
                                               signed_challenge, elapsed)

SpecAuth == Init /\ [][NextAuth]_vars

(***************************************************************************)
(* The funding rate alone: passes of the funding job over an empty book,   *)
(* with index and mark prices far apart.                                   *)
(***************************************************************************)
NextRate ==
    /\ Len(funding_rates) < MaxRatePasses
    /\ \E fetched_index, fetched_mark \in RatePrices \cup {NoPrice} :
          apply_funding_for_market(fetched_index, fetched_mark)

SpecRate == Init /\ [][NextRate]_vars

(***************************************************************************)
(* The funding job: funded accounts open positions and the job runs more   *)
(* than once within one second.                                            *)
(***************************************************************************)
NextFunding ==
    \/ \E pubkey \in Pubkeys, amount \in LightningAmounts : LightningDeposit(pubkey, amount)
    \/ /\ n_transfers < MaxTransfers
       /\ \E pubkey \in Pubkeys :
             futures_collateral_deposit(StoreFor(pubkey, TRUE), pubkey, 300000,
                 SignedChallenge(StoreFor(pubkey, TRUE), pubkey), 0)
    \/ /\ Len(orders) < MaxOrders
       /\ \E ev \in OrderEvents({2700}), fetched \in Fetches : place_order(ev, 0, fetched)
    \/ /\ Len(funding_rates) < MaxFundingPasses
       /\ \E fetched_index, fetched_mark \in Fetches :
             apply_funding_for_market(fetched_index, fetched_mark)

SpecFunding == Init /\ [][NextFunding]_vars

(***************************************************************************)
(* Properties.                                                             *)
(***************************************************************************)
\* C1: in every reachable state every futures account has
\* collateral_msats >= 0 and every bank account has balance_msats >= 0, for
\* any integer amount that passes the endpoints' own checks.
C1_BalancesNonNegative ==
    /\ \A pubkey \in DOMAIN accounts : accounts[pubkey] >= 0
    /\ \A pubkey \in DOMAIN futures_accounts : futures_accounts[pubkey] >= 0

RECURSIVE SumOver(_, _)
SumOver(f, S) ==
    IF S = {} THEN 0
    ELSE LET x == CHOOSE x \in S : TRUE IN f[x] + SumOver(f, S \ {x})

\* Bank balances + futures collateral + position collateral + insurance fund.
TotalMsats(accts, facc, poss, fund) ==
    LET ids == {p.id : p \in poss}
        col == [id \in ids |-> (CHOOSE p \in poss : p.id = id).collateral_msats]
    IN  SumOver(accts, DOMAIN accts) + SumOver(facc, DOMAIN facc) + SumOver(col, ids) + fund

\* C2: every internal operation (anything but a paid invoice) leaves the
\* total of bank balances, futures collateral, position collateral and the
\* insurance fund unchanged.
C2_TotalConserved ==
    [][(~\E pubkey \in Pubkeys, amount \in LightningAmounts :
            LightningDeposit(pubkey, amount))
       => TotalMsats(accounts', futures_accounts', positions', insurance_fund')
            = TotalMsats(accounts, futures_accounts, positions, insurance_fund)]_vars

\* C3: a filled order stays filled and a cancelled order stays as it is:
\* no step sets a filled order to cancelled, and no step gives a cancelled
\* order a fill or another status.
C3_StatusTerminal ==
    [][\A i \in 1..Len(orders) :
          /\ orders[i].status = "filled" => orders'[i].status = "filled"
          /\ orders[i].status = "cancelled" => orders'[i] = orders[i]]_vars

\* C4: an order event is applied at most once: no two persisted orders
\* carry the same event id.
C4_EventAppliedOnce ==
    \A i, j \in 1..Len(orders) :
        i # j => orders[i].nostr_event_id # orders[j].nostr_event_id

\* The trades a step records, and the maker of a trade whose taker is known.
NewTrades == (Len(trades) + 1)..Len(trades')
MakerOf(trade, taker_id) ==
    IF trade.buy_order_id = taker_id THEN trade.sell_order_id ELSE trade.buy_order_id

\* C5: every fill opens exactly two positions, one for the taker's pubkey
\* on the taker's side and one for the maker's pubkey on the maker's side,
\* both of the fill's size at the fill's price, whether the fill is partial
\* or not.
C5_FillOpensTwoPositions ==
    [][/\ Cardinality(positions' \ positions) = 2 * Cardinality(NewTrades)
       /\ \A k \in NewTrades :
             LET trade == trades'[k]
                 taker == orders'[Len(orders')]
                 maker == orders'[MakerOf(trade, Len(orders'))]
                 opened == {p \in positions' \ positions : p.id \in {2 * k - 1, 2 * k}}
             IN  /\ Cardinality(opened) = 2
                 /\ \E pt, pm \in opened :
                       /\ pt # pm
                       /\ pt.pubkey = taker.pubkey /\ pt.side = taker.side
                       /\ pm.pubkey = maker.pubkey /\ pm.side = maker.side
                 /\ \A p \in opened : /\ p.size_sats = trade.size_sats
                                       /\ p.entry_price_usd = trade.price_usd]_vars

\* C5 happens: a fill smaller than the order of one of its parties, with
\* its two positions.
C5_PartialFillDone ==
    \E k \in 1..Len(trades) :
        /\ trades[k].size_sats < orders[trades[k].buy_order_id].size_sats
        /\ Cardinality({p \in positions : p.size_sats = trades[k].size_sats
                                           /\ p.id \in {2 * k - 1, 2 * k}}) = 2

\* Order a has priority over order b for a taker of the given side.
HasPriority(taker_side, a, b) ==
    \/ taker_side = "long" /\ a.price_usd < b.price_usd
    \/ taker_side = "short" /\ a.price_usd > b.price_usd
    \/ a.price_usd = b.price_usd /\ a.created_at < b.created_at

\* C6: when a taker fills against a resting order, every open limit order
\* of that side with a better price, or the same price and an earlier
\* creation time, has already been filled completely by an earlier fill of
\* the same taker.
C6_PriceTimePriority ==
    [][\A k \in NewTrades :
          LET taker_id == Len(orders')
              maker_id == MakerOf(trades'[k], taker_id)
          IN  \A j \in 1..Len(orders) :
                (/\ j # maker_id
                 /\ orders[j].side = orders[maker_id].side
                 /\ orders[j].order_type = "limit"
                 /\ orders[j].status = "open"
                 /\ HasPriority(orders'[taker_id].side, orders[j], orders[maker_id]))
                => /\ orders'[j].status = "filled"
                   /\ \E k2 \in NewTrades :
                         k2 < k /\ MakerOf(trades'[k2], taker_id) = j]_vars

\* C6 happens: a short taker was filled by a bid while a lower bid that was
\* resting before it came is still open.
C6_BestBidTakenFirst ==
    \E k \in 1..Len(trades), j \in 1..Len(orders) :
        LET taker_id == Max(trades[k].buy_order_id, trades[k].sell_order_id)
            maker_id == Min(trades[k].buy_order_id, trades[k].sell_order_id)
        IN  /\ orders[taker_id].side = "short"
            /\ j < taker_id /\ j # maker_id
            /\ orders[j].side = "long" /\ orders[j].order_type = "limit"
            /\ orders[j].status = "open"
            /\ orders[j].price_usd < orders[maker_id].price_usd

\* A thread is between the first and the last ledger call of an engine
\* operation.
InEngine(t) ==
    threads[t].pc \in {"place_debit", "place_create", "place_snapshot", "place_match",
                       "place_finish", "cancel_update", "cancel_credit", "close_fund",
                       "close_delete", "close_credit"}

\* C7: place_order, cancel_order and close_position exclude one another:
\* no two threads are inside engine operations at once.
C7_EngineMutualExclusion ==
    \A t1, t2 \in Threads : t1 # t2 => ~(InEngine(t1) /\ InEngine(t2))

\* C8: cancelling an order right after placing it, with nothing filled,
\* leaves the caller's futures collateral at its value before the placement.
C8_PlaceCancelRestores ==
    [][\A pubkey \in Pubkeys, order_id \in 1..Len(orders), fetched \in Fetches :
          (/\ CancelAccepted(pubkey, order_id)
           /\ cancel_order(pubkey, order_id, fetched)
           /\ last.op = "place_order" /\ last.pubkey = pubkey /\ last.arg = order_id
           /\ orders[order_id].filled_size_sats = 0)
          => get_collateral_msats(pubkey)' = last.collateral_before]_vars

\* An accepted collateral deposit / withdraw of n by pubkey is the step.
DepositStep(pubkey, n) ==
    \E fresh \in BOOLEAN :
        /\ DepositAccepted(StoreFor(pubkey, fresh), pubkey, n,
                 SignedChallenge(StoreFor(pubkey, fresh), pubkey), now)
        /\ futures_collateral_deposit(StoreFor(pubkey, fresh), pubkey, n,
                 SignedChallenge(StoreFor(pubkey, fresh), pubkey), 0)

WithdrawStep(pubkey, n) ==
    \E fresh \in BOOLEAN :
        /\ WithdrawAccepted(StoreFor(pubkey, fresh), pubkey, n,
                 SignedChallenge(StoreFor(pubkey, fresh), pubkey), now)
        /\ futures_collateral_withdraw(StoreFor(pubkey, fresh), pubkey, n,
                 SignedChallenge(StoreFor(pubkey, fresh), pubkey), 0)

\* A collateral deposit / withdraw that the endpoint rejects is the step.
RejectedTransferStep(pubkey, n) ==
    \E fresh \in BOOLEAN :
        \/ /\ ~DepositAccepted(StoreFor(pubkey, fresh), pubkey, n,
                 SignedChallenge(StoreFor(pubkey, fresh), pubkey), now)
           /\ futures_collateral_deposit(StoreFor(pubkey, fresh), pubkey, n,
                 SignedChallenge(StoreFor(pubkey, fresh), pubkey), 0)
        \/ /\ ~WithdrawAccepted(StoreFor(pubkey, fresh), pubkey, n,
                 SignedChallenge(StoreFor(pubkey, fresh), pubkey), now)
           /\ futures_collateral_withdraw(StoreFor(pubkey, fresh), pubkey, n,
                 SignedChallenge(StoreFor(pubkey, fresh), pubkey), 0)

\* The bank balance and the collateral of pubkey move by the given amounts
\* and nobody else's move.
Moves(pubkey, bank_delta, collateral_delta) ==
    /\ get_balance_msats(pubkey)' = get_balance_msats(pubkey) + bank_delta
    /\ get_collateral_msats(pubkey)' = get_collateral_msats(pubkey) + collateral_delta
    /\ \A other \in Pubkeys \ {pubkey} :
          /\ get_balance_msats(other)' = get_balance_msats(other)
          /\ get_collateral_msats(other)' = get_collateral_msats(other)

\* C9: an accepted collateral deposit of n moves exactly n from the bank
\* balance to the futures collateral, an accepted withdraw of n moves exactly
\* n back, a rejected call moves nothing, and an accepted withdraw of n right
\* after an accepted deposit of n by the same account restores both the bank
\* balance and the collateral to what they were before the deposit.
C9_DepositWithdrawRoundTrip ==
    [][\A pubkey \in Pubkeys, n \in Amounts :
          /\ DepositStep(pubkey, n) => Moves(pubkey, -n, n)
          /\ WithdrawStep(pubkey, n) => Moves(pubkey, n, -n)
          /\ RejectedTransferStep(pubkey, n) => UNCHANGED <<accounts, futures_accounts>>
          /\ (WithdrawStep(pubkey, n) /\ last.op = "collateral_deposit"
                /\ last.pubkey = pubkey /\ last.arg = n)
             => /\ get_balance_msats(pubkey)' = last.balance_before
                /\ get_collateral_msats(pubkey)' = last.collateral_before]_vars

\* C9 happens: 300000 msats went into collateral and came back out, leaving
\* the bank balance of the paid invoice and no collateral.
C9_RoundTripDone ==
    \E pubkey \in Pubkeys :
        /\ last.op = "collateral_withdraw" /\ last.pubkey = pubkey /\ last.arg = 300000
        /\ last.balance_before = 100000 /\ last.collateral_before = 300000
        /\ get_balance_msats(pubkey) = 400000
        /\ get_collateral_msats(pubkey) = 0

\* C10: a funding pass takes from the paying positions what it gives to the
\* receiving positions, up to one msat of flooring per position.
C10_FundingZeroSum ==
    [][Len(funding_rates') > Len(funding_rates)
       => LET ids == {p.id : p \in positions}
              before == [id \in ids |-> (CHOOSE p \in positions : p.id = id).collateral_msats]
              after == [id \in ids |-> (CHOOSE p \in positions' : p.id = id).collateral_msats]
              removed == [id \in ids |-> Max(0, before[id] - after[id])]
              added == [id \in ids |-> Max(0, after[id] - before[id])]
          IN  Abs(SumOver(removed, ids) - SumOver(added, ids)) <= Cardinality(ids)]_vars

\* The rate lies in [-MAX_RATE, MAX_RATE].
InRateInterval(rate) ==
    /\ rate.den > 0
    /\ rate.num * MAX_RATE_DEN <= MAX_RATE_NUM * rate.den
    /\ rate.num * MAX_RATE_DEN >= -(MAX_RATE_NUM * rate.den)

\* The rate is ((mark - index) / index) * FUNDING_FACTOR brought into
\* [-MAX_RATE, MAX_RATE].
IsClampedPremium(rate, mark, index) ==
    LET raw_num == (mark - index) * FUNDING_NUM
        raw_den == index * FUNDING_DEN
    IN  IF raw_num * MAX_RATE_DEN > MAX_RATE_NUM * raw_den
        THEN rate.num * MAX_RATE_DEN = MAX_RATE_NUM * rate.den
        ELSE IF raw_num * MAX_RATE_DEN < -(MAX_RATE_NUM * raw_den)
        THEN rate.num * MAX_RATE_DEN = -(MAX_RATE_NUM * rate.den)
        ELSE rate.num * raw_den = raw_num * rate.den

\* C11: every recorded funding rate is the premium (mark - index) / index
\* times FUNDING_FACTOR clamped to [-MAX_RATE, MAX_RATE], and so lies in
\* that interval.
C11_FundingRateClamped ==
    \A k \in 1..Len(funding_rates) :
        /\ InRateInterval(funding_rates[k].rate)
        /\ IsClampedPremium(funding_rates[k].rate, funding_rates[k].mark_price_usd,
                            funding_rates[k].index_price_usd)

\* C11 happens: a recorded rate is MAX_RATE because the premium times the
\* factor was above it.
C11_RateCapped ==
    \E k \in 1..Len(funding_rates) :
        LET row == funding_rates[k]
        IN  /\ row.rate.num * MAX_RATE_DEN = MAX_RATE_NUM * row.rate.den
            /\ (row.mark_price_usd - row.index_price_usd) * FUNDING_NUM * MAX_RATE_DEN
                  > MAX_RATE_NUM * row.index_price_usd * FUNDING_DEN

\* C12: a funding pass that runs in an epoch in which a pass was already
\* recorded leaves every position that the earlier pass settled as it is.
\* Two passes within the same second are in the same epoch whatever the
\* length of the interval.
C12_FundingOncePerEpoch ==
    [][Len(funding_rates') > Len(funding_rates)
       => \A pos \in positions :
             (/\ pos.funding_cost_msats # 0
              /\ \E k \in 1..Len(funding_rates) : funding_rates[k].timestamp = now)
             => pos \in positions']_vars

\* The step is a liquidation scan / a close_position call of the owner that
\* finds a mark price.
ScanStep == \E fetched \in CrashFetches : run_liquidation_scan(fetched)

\* The unrealized PnL of a position at the mark price.
PnlAt(pos, mark) ==
    calc_unrealized_pnl_msats(pos.side, pos.size_sats, pos.entry_price_usd, mark)

\* C13: when the scan liquidates a position with equity = collateral + pnl
\* and liq_fee = floor(size_sats * 1000 * 0.005): with equity >= liq_fee the
\* fund grows by liq_fee and the owner's collateral by equity - liq_fee;
\* with 0 < equity < liq_fee the fund grows by equity and the owner gets
\* nothing; otherwise the fund shrinks by |equity| + liq_fee, not below 0,
\* and the owner gets nothing; the position is deleted.
C13_LiquidationSettlement ==
    [][\A pos \in positions :
          (ScanStep /\ positions \ positions' = {pos})
          => LET equity == pos.collateral_msats + PnlAt(pos, cache_price')
                 liq_fee == (pos.size_sats * 1000 * LIQ_FEE_NUM) \div LIQ_FEE_DEN
                 owner == pos.pubkey
             IN  IF equity >= liq_fee
                 THEN /\ insurance_fund' = insurance_fund + liq_fee
                      /\ get_collateral_msats(owner)'
                           = get_collateral_msats(owner) + equity - liq_fee
                 ELSE IF equity > 0
                 THEN /\ insurance_fund' = insurance_fund + equity
                      /\ get_collateral_msats(owner)' = get_collateral_msats(owner)
                 ELSE /\ insurance_fund' = Max(0, insurance_fund - (Abs(equity) + liq_fee))
                      /\ get_collateral_msats(owner)' = get_collateral_msats(owner)]_vars

\* The margin ratio (collateral + pnl) / (size_sats * 1000) of a position
\* at the mark price is strictly below the maintenance margin.
BelowMaintenance(pos, mark) ==
    (pos.collateral_msats + PnlAt(pos, mark)) * MM_DEN < MM_NUM * pos.size_sats * 1000

\* C14: the scan deletes a position only if its margin ratio at the current
\* mark price is strictly below the maintenance margin; a position at or
\* above it is left as it is.
C14_OnlyBelowMaintenance ==
    [][ScanStep
       => \A pos \in positions :
             /\ pos \notin positions'
                  => cache_price' # NoPrice /\ BelowMaintenance(pos, cache_price')
             /\ ~BelowMaintenance(pos, cache_price') => pos \in positions']_vars

\* C14 happens: a scan liquidated a position and left another, which is at
\* or above maintenance at the mark price of the scan.
C14_ScanSparedHealthy ==
    /\ last.op = "liquidation"
    /\ \E pos \in positions : ~BelowMaintenance(pos, cache_price)

\* C15: the insurance fund is never negative: a draw larger than the
\* balance leaves exactly 0, and a position that is closed or liquidated
\* with positive equity does not lower the fund.
C15_InsuranceFundNonNegative ==
    [][/\ insurance_fund >= 0
       /\ insurance_fund' >= 0
       /\ \A pos \in positions :
             positions \ positions' = {pos}
             => LET equity == pos.collateral_msats + PnlAt(pos, cache_price')
                IN  /\ equity > 0 => insurance_fund' >= insurance_fund
                    /\ (equity < 0 /\ Abs(equity) > insurance_fund)
                         => insurance_fund' = 0]_vars

\* C15 happens: the fund held a balance and a liquidation with bad debt
\* drew more than that, leaving 0.
C15_FundDrained ==
    /\ last.op = "liquidation"
    /\ last.fund_before > 0
    /\ insurance_fund = 0

\* C16: close_position by the owner with a mark price available deletes
\* the position and credits the owner with settlement = max(0, collateral
\* + pnl) less the fee floor(insurance_fund_fee_pct * (settlement -
\* collateral)) taken when settlement > collateral, which goes to the
\* insurance fund; when collateral + pnl < 0 the fund is drawn by the
\* shortfall (not below 0) and the owner receives nothing.
C16_CloseSettles ==
    [][\A pubkey \in Pubkeys, pos \in positions, fetched \in CrashFetches :
          (/\ close_position(pubkey, pos.id, fetched)
           /\ pos.pubkey = pubkey
           /\ (fetched # NoPrice \/ cache_price # NoPrice))
          => LET mark == IF fetched # NoPrice THEN fetched ELSE cache_price
                 raw == pos.collateral_msats + PnlAt(pos, mark)
                 settlement == Max(0, raw)
                 fee == IF settlement > pos.collateral_msats
                        THEN ((settlement - pos.collateral_msats) * INS_FEE_NUM)
                                \div INS_FEE_DEN
                        ELSE 0
             IN  /\ positions' = positions \ {pos}
                 /\ get_collateral_msats(pubkey)'
                      = get_collateral_msats(pubkey) + settlement - fee
                 /\ insurance_fund' = IF raw < 0 THEN Max(0, insurance_fund + raw)
                                      ELSE insurance_fund + fee]_vars

\* C16 happens: an owner closed a position with a profit; the fee went to
\* the insurance fund and the rest to the owner.
C16_ClosedWithProfit ==
    /\ last.op = "close_position"
    /\ last.arg \notin PositionIds
    /\ insurance_fund > last.fund_before
    /\ get_collateral_msats(last.pubkey) > last.collateral_before + 270000

\* The tables of the ledger.
Ledger == <<accounts, futures_accounts, orders, positions, trades, funding_rates,
            insurance_fund>>

\* place_order returns an error for the event: unknown market, bad side,
\* type, size or leverage, limit order without a price, no price from the
\* oracle for a market order, or collateral below the requirement.
PlaceRejected(ev, fetched) ==
    \/ ev.market # "BTC-USD-PERP"
    \/ ev.side \notin {"long", "short"}
    \/ ev.order_type \notin {"limit", "market"}
    \/ ev.size_sats <= 0
    \/ ev.leverage < 1 \/ ev.leverage > MAX_LEVERAGE
    \/ ev.order_type = "limit" /\ ev.price_usd = NoPrice
    \/ ev.price_usd = NoPrice /\ fetched = NoPrice /\ cache_price = NoPrice
    \/ get_collateral_msats(ev.pubkey)
         < required_collateral_msats(ev.size_sats, ev.leverage,
               IF ev.price_usd # NoPrice THEN ev.price_usd
               ELSE IF fetched # NoPrice THEN fetched ELSE cache_price,
               TAKER_FEE_NUM)

\* close_position returns an error: unknown position, wrong owner, or no
\* price from the oracle.
CloseRejected(pubkey, position_id, fetched) ==
    \/ ~\E pos \in positions : pos.id = position_id
    \/ \E pos \in positions : pos.id = position_id /\ pos.pubkey # pubkey
    \/ fetched = NoPrice /\ cache_price = NoPrice

\* C18: an engine call that returns an error leaves the ledger unchanged:
\* a rejected place_order persists no order, debits no collateral and
\* creates no trade or position; a rejected close_position changes nothing.
C18_RejectedChangesNothing ==
    [][/\ \A ev \in OrderEvents({2700}) \cup BadOrderEvents, fetched \in CrashFetches :
             (place_order(ev, 0, fetched) /\ PlaceRejected(ev, fetched))
             => UNCHANGED Ledger
       /\ \A pubkey \in Pubkeys, position_id \in 1..(2 * MaxOrders),
             fetched \in CrashFetches :
             (close_position(pubkey, position_id, fetched)
                /\ CloseRejected(pubkey, position_id, fetched))
             => UNCHANGED Ledger]_vars

\* C18 happens: a market order read the oracle and was rejected for lack of
\* collateral; nothing is in the order book, and no other call reads the
\* oracle while there is no position.
C18_RejectedOrderReadOracle ==
    /\ cache_price # NoPrice
    /\ orders = << >>
    /\ positions = {}
    /\ trades = << >>

\* C19: cancel_order succeeds only when the order exists, belongs to the
\* caller and is open, and then the order becomes cancelled; in every other
\* case the orders keep their status and no collateral is credited.
C19_CancelOnlyOwnOpenOrder ==
    [][\A pubkey \in Pubkeys, order_id \in 1..MaxOrders, fetched \in Fetches :
          cancel_order(pubkey, order_id, fetched)
          => IF /\ order_id <= Len(orders)
                /\ orders[order_id].pubkey = pubkey
                /\ orders[order_id].status = "open"
             THEN orders'[order_id].status = "cancelled"
             ELSE UNCHANGED <<orders, futures_accounts>>]_vars

\* C19 happens: an owner cancelled an open order of theirs and was refunded.
C19_OwnOrderCancelled ==
    /\ last.op = "cancel_order"
    /\ orders[last.arg].status = "cancelled"
    /\ orders[last.arg].pubkey = last.pubkey
    /\ get_collateral_msats(last.pubkey) > last.collateral_before

\* C17: get_index_price answers from the cache, without calling upstream,
\* while the cached price is younger than the TTL; when the fetch fails it
\* answers the last price fetched, however old; it answers nothing only if
\* no fetch has ever succeeded.
C17_OracleCache ==
    [][\A elapsed \in OracleElapsed, upstream \in Fetches :
          call_get_index_price(elapsed, upstream)
          => LET fresh == cache_price # NoPrice /\ now' - cache_ts < CACHE_TTL
             IN  /\ fresh => /\ last'.arg = cache_price
                             /\ ~last'.upstream_called
                             /\ UNCHANGED <<cache_price, cache_ts>>
                 /\ (~fresh /\ upstream = NoPrice) => last'.arg = cache_price
                 /\ last'.arg = NoPrice => cache_price = NoPrice /\ upstream = NoPrice]_vars

\* C17 happens: a read called upstream, the fetch failed, and the read
\* answered the cached price although it is older than the TTL.
C17_StaleServed ==
    /\ last.op = "get_index_price"
    /\ last.upstream_called
    /\ last.arg = cache_price
    /\ cache_price # NoPrice
    /\ now - cache_ts > CACHE_TTL

\* C20: an accepted collateral deposit or withdrawal never carries the signed
\* challenge event that the accepted collateral move before it carried: a
\* signed event is accepted for one call only.
SignedOps == {"collateral_deposit", "collateral_withdraw"}

C20_SignedEventAcceptedOnce ==
    [][(last' # last /\ last'.op \in SignedOps /\ last.op \in SignedOps)
          => last'.signed # last.signed]_vars

\* C20, the parts of the challenge check that the endpoints do keep: an accepted
\* collateral move answered a challenge stored for its pubkey that had not
\* expired, and the challenge is gone afterwards.
C20_AcceptedAnsweredStoredChallenge ==
    [][(last' # last /\ last'.op \in SignedOps)
          => /\ last'.pubkey \in DOMAIN challenges
             /\ last'.signed = SignedChallenge(challenges, last'.pubkey)
             /\ ~(challenges[last'.pubkey].expires_at < now')
             /\ last'.pubkey \notin DOMAIN challenges']_vars

\* C21: a signed transfer event is applied to the bank ledger at most once:
\* a step of a request whose signed event already has its rows in
\* transactions changes no balance.
TransferPcs == {"transfer_select", "transfer_write", "transfer_add"}

Applied(event) == \E id \in transactions : id.event = event

C21_TransferAppliedOnce ==
    [][\A t \in Threads :
          (/\ threads[t].pc \in TransferPcs
           /\ threads'[t] # threads[t]
           /\ Applied(threads[t].request.event))
          => accounts' = accounts]_vars

\* C21, the part the primary key of transactions keeps: of the requests
\* carrying one event id, processed one after the other or concurrently, one
\* is applied; the step of any other changes no balance.
C21_SameIdAppliedOnce ==
    [][\A t \in Threads :
          (/\ threads[t].pc \in TransferPcs
           /\ threads'[t] # threads[t]
           /\ threads[t].request.id \in transactions)
          => accounts' = accounts]_vars

\* C22: in every reachable state every order has 0 <= filled_size_sats <=
\* size_sats, status filled exactly when filled_size_sats = size_sats,
\* status partially_filled only when 0 < filled_size_sats < size_sats, and
\* status open only when filled_size_sats = 0.
OrderConsistent(o) ==
    /\ 0 <= o.filled_size_sats /\ o.filled_size_sats <= o.size_sats
    /\ o.status = "filled" <=> o.filled_size_sats = o.size_sats
    /\ o.status = "partially_filled" =>
          (0 < o.filled_size_sats /\ o.filled_size_sats < o.size_sats)
    /\ o.status = "open" => o.filled_size_sats = 0

C22_OrderFillStatus ==
    \A i \in 1..Len(orders) : OrderConsistent(orders[i])

\* C23: every persisted order has a price_usd if and only if its order_type
\* is limit.
C23_PriceIffLimit ==
    \A i \in 1..Len(orders) :
        orders[i].price_usd # NoPrice <=> orders[i].order_type = "limit"

\* C24: from creation to deletion every position's stored liquidation price
\* is entry * (1 - 1/leverage + mm) for a long and entry * (1 + 1/leverage -
\* mm) for a short, from its own side, entry price and leverage; no step,
\* funding settlement included, changes the size, entry price, leverage or
\* liquidation price of a position that stays.
\* The stored price is in thousandths; the equation is multiplied by
\* leverage * MM_DEN to stay in the integers.
LiquidationPriceOwn(p) ==
    p.liquidation_price_usd * p.leverage * MM_DEN =
        p.entry_price_usd * 1000 *
            (IF p.side = "long"
             THEN p.leverage * MM_DEN - MM_DEN + MM_NUM * p.leverage
             ELSE p.leverage * MM_DEN + MM_DEN - MM_NUM * p.leverage)

SameTerms(p, q) ==
    /\ q.pubkey = p.pubkey /\ q.side = p.side
    /\ q.size_sats = p.size_sats
    /\ q.entry_price_usd = p.entry_price_usd
    /\ q.leverage = p.leverage
    /\ q.liquidation_price_usd = p.liquidation_price_usd

C24_LiquidationPriceFixed ==
    /\ [](\A p \in positions : LiquidationPriceOwn(p))
    /\ [][\A p \in positions : \A q \in positions' : q.id = p.id => SameTerms(p, q)]_vars

\* Positions of leverage 5 and of leverage 10 are open and a funding pass
\* has settled on them.
C24_FundedAtTwoLeverages ==
    /\ \E p \in positions : p.leverage = 5 /\ p.funding_cost_msats # 0
    /\ \E p \in positions : p.leverage = 10 /\ p.funding_cost_msats # 0

\* A position whose collateral a funding payment has clamped to 0.
Clamped(pos) == pos.collateral_msats = 0 /\ pos.funding_cost_msats > 0

\* C25 as stated: a position whose collateral was clamped to 0 by a funding
\* payment is deleted by the next liquidation scan that runs with a mark
\* price available.
C25_ClampedDeletedByNextScan ==
    [][(ScanStep /\ cache_price' # NoPrice)
          => \A pos \in positions : Clamped(pos) => pos \notin positions']_vars

\* C25 amended: the next scan with a mark price deletes a position whose
\* collateral was clamped to 0 exactly when its unrealized PnL at that mark
\* price is below the maintenance margin of its notional; a clamped
\* position in profit beyond that stays open.
C25_ClampedDeletedIfBelowMaintenance ==
    [][(ScanStep /\ cache_price' # NoPrice)
          => \A pos \in positions :
                Clamped(pos)
                => (pos \notin positions' <=> BelowMaintenance(pos, cache_price'))]_vars

\* A scan with a mark price liquidated a position and left a clamped one,
\* whose profit at that price keeps it at or above maintenance.
C25_ClampedSpared ==
    /\ last.op = "liquidation"
    /\ cache_price # NoPrice
    /\ \E pos \in positions : Clamped(pos) /\ ~BelowMaintenance(pos, cache_price)

\* The price the scan's read for position `id` returns: the latest price
\* fetched for a position up to it, or the price cached before the scan.
RECURSIVE MarkSeen(_, _)
MarkSeen(reads, id) ==
    IF reads[id] # NoPrice THEN reads[id]
    ELSE IF \E j \in DOMAIN reads : j < id
         THEN MarkSeen(reads, CHOOSE j \in DOMAIN reads :
                                  j < id /\ \A k \in DOMAIN reads : k < id => k <= j)
         ELSE cache_price

\* The oracle answers None to a funding pass: nothing cached, no index fetched.
NoOracle(fetched) == fetched[1] = NoPrice /\ cache_price = NoPrice

Funds == <<accounts, futures_accounts, insurance_fund>>

\* C26: a background cycle that finds no oracle price is a no-op: the
\* funding pass changes no position and appends no funding row; the scan
\* keeps every position whose read found no price and moves no funds when
\* no read found one; and the scan goes on with the remaining positions,
\* deleting those that are below maintenance at the price their read found.
C26_NoPriceCycleIsNoOp ==
    /\ [][\A fetched \in SkipFetches :
             (NoOracle(fetched) /\ apply_funding_for_market(fetched[1], fetched[2]))
             => UNCHANGED <<positions, funding_rates, Funds>>]_vars
    /\ [](\A reads \in ScanReads :
             LET R == ScanEach([positions |-> positions,
                                futures_accounts |-> futures_accounts,
                                insurance_fund |-> insurance_fund],
                               positions, 1, cache_price, reads).ledger
             IN  /\ \A pos \in positions :
                       /\ MarkSeen(reads, pos.id) = NoPrice => pos \in R.positions
                       /\ (/\ MarkSeen(reads, pos.id) # NoPrice
                           /\ BelowMaintenance(pos, MarkSeen(reads, pos.id)))
                          => pos \notin R.positions
                 /\ (\A pos \in positions : MarkSeen(reads, pos.id) = NoPrice)
                    => /\ R.positions = positions
                       /\ R.futures_accounts = futures_accounts
                       /\ R.insurance_fund = insurance_fund)

\* A scan liquidated a position and left an earlier one that is below
\* maintenance at the price now cached: its own read had found no price.
C26_SkippedThenContinued ==
    /\ last.op = "liquidation"
    /\ cache_price # NoPrice
    /\ \E pos \in positions : BelowMaintenance(pos, cache_price)
    /\ funding_rates = << >>

\* The positions the k-th fill created: the taker's and the maker's.
FillPositions(k) == {pos \in positions : pos.id \in {2 * k - 1, 2 * k}}

TradeNamesItsOrders(k) ==
    LET trade == trades[k]
    IN  /\ trade.buy_order_id \in 1..Len(orders)
        /\ trade.sell_order_id \in 1..Len(orders)
        /\ orders[trade.buy_order_id].side = "long"
        /\ orders[trade.sell_order_id].side = "short"
        /\ trade.buyer_pubkey = orders[trade.buy_order_id].pubkey
        /\ trade.seller_pubkey = orders[trade.sell_order_id].pubkey
        /\ Cardinality(FillPositions(k)) = 2
        /\ \A pos \in FillPositions(k) :
              /\ pos.size_sats = trade.size_sats
              /\ pos.entry_price_usd = trade.price_usd
              /\ pos.pubkey = IF pos.side = "long" THEN trade.buyer_pubkey
                              ELSE trade.seller_pubkey

\* C27: every trade record names the long-side order as buy_order_id and
\* the short-side order as sell_order_id, its buyer and seller are the
\* pubkeys of those two orders, and its size and price are those of the
\* fill, which the two positions of the fill carry.
C27_TradeNamesItsOrders ==
    \A k \in 1..Len(trades) : TradeNamesItsOrders(k)

\* A short taker was filled against a resting long of another trader: the
\* buyer of the trade is the maker.
C27_MakerBought ==
    \E k \in 1..Len(trades) :
        /\ trades[k].buy_order_id < trades[k].sell_order_id
        /\ trades[k].buyer_pubkey # trades[k].seller_pubkey

\* The orders of the k-th fill: the taker is the order placed last.
FillTaker(k) ==
    IF trades[k].buy_order_id > trades[k].sell_order_id THEN trades[k].buy_order_id
    ELSE trades[k].sell_order_id

FillMaker(k) ==
    IF trades[k].buy_order_id > trades[k].sell_order_id THEN trades[k].sell_order_id
    ELSE trades[k].buy_order_id

\* The positions that the fills of order `id` created for its owner.
PositionsOfOrder(id) ==
    {pos \in positions :
        \E k \in 1..Len(trades) :
            \/ pos.id = 2 * k - 1 /\ FillTaker(k) = id
            \/ pos.id = 2 * k /\ FillMaker(k) = id}

\* The collateral place_order debited for an order that carries a price.
Reserved(order) ==
    required_collateral_msats(order.size_sats, order.leverage, order.price_usd,
                              TAKER_FEE_NUM)

RECURSIVE CollateralOf(_)
CollateralOf(S) ==
    IF S = {} THEN 0
    ELSE LET pos == CHOOSE p \in S : TRUE
         IN  pos.collateral_msats + CollateralOf(S \ {pos})

ShareOfReserved(order, pos) ==
    pos.collateral_msats = (Reserved(order) * pos.size_sats) \div order.size_sats

\* C28: for each fill and each party, taker and maker alike, the position
\* created holds the collateral debited for that party's order at placement
\* times fill_size / order size, rounded toward zero, and the positions of
\* an order's fills never hold more in total than was reserved.  Stated for
\* the orders that carry a price, whose debit the order row determines.
C28_FillCollateralIsReservedShare ==
    \A id \in 1..Len(orders) :
        orders[id].price_usd # NoPrice
        => /\ \A pos \in PositionsOfOrder(id) : ShareOfReserved(orders[id], pos)
           /\ CollateralOf(PositionsOfOrder(id)) <= Reserved(orders[id])

\* The same holds of the taker of every fill, and no order's positions hold
\* more than was reserved for it.
C28_TakerCollateralIsReservedShare ==
    \A id \in 1..Len(orders) :
        orders[id].price_usd # NoPrice
        => /\ \A pos \in PositionsOfOrder(id) :
                 pos.id % 2 = 1 => ShareOfReserved(orders[id], pos)
           /\ CollateralOf(PositionsOfOrder(id)) <= Reserved(orders[id])

\* What place_order debits for an order that carries a price is Reserved.
C28_ReservedIsDebited ==
    [][(Len(orders') = Len(orders) + 1 /\ orders'[Len(orders')].price_usd # NoPrice)
          => LET order == orders'[Len(orders')]
             IN  futures_accounts[order.pubkey] - futures_accounts'[order.pubkey]
                     = Reserved(order)]_vars

\* The row a funding pass appended in this step.
PassRecorded == Len(funding_rates') = Len(funding_rates) + 1
PassRate == funding_rates'[Len(funding_rates')]

\* A pass with the rate of the appended row moved `payment` msats from or to
\* position pos, by the sign of the rate and the side of the position.
Funded(pos, rate, payment) ==
    \E q \in positions' :
        /\ q.id = pos.id
        /\ IF (rate.num > 0) = (pos.side = "long")
           THEN /\ q.collateral_msats = Max(0, pos.collateral_msats - payment)
                /\ q.funding_cost_msats = pos.funding_cost_msats + payment
           ELSE /\ q.collateral_msats = pos.collateral_msats + payment
                /\ q.funding_cost_msats = pos.funding_cost_msats - payment

\* C29: in a funding pass with rate # 0 each open position's payment is
\* floor(|rate| * size_sats * 1000); with rate > 0 the longs' collateral
\* decreases by it, not below 0, and the shorts' increases by it, with
\* rate < 0 the other way round; funding_cost_msats grows by the payment
\* for the payers and decreases by it for the receivers.
C29_FundingPayments ==
    [][(PassRecorded /\ PassRate.rate.num # 0)
          => \A pos \in positions :
                Funded(pos, PassRate.rate,
                       (Abs(PassRate.rate.num) * pos.size_sats * 1000)
                           \div PassRate.rate.den)]_vars

\* The directions, the clamp and the signs are those of the claim when the
\* payment is the one the pass computes from the notional in msats.
C29_FundingDirections ==
    [][(PassRecorded /\ PassRate.rate.num # 0)
          => \A pos \in positions :
                Funded(pos, PassRate.rate,
                       FundingPayment(PassRate.rate, pos.size_sats,
                                      PassRate.mark_price_usd,
                                      PassRate.index_price_usd))]_vars

\* size_sats of the trades a..b of a sequence of trades.
RECURSIVE SizeOfTrades(_, _, _)
SizeOfTrades(seq, a, b) ==
    IF a > b THEN 0 ELSE seq[a].size_sats + SizeOfTrades(seq, a + 1, b)

\* The candidates of a taker: the open limit orders of the other side.
Candidates(taker) ==
    {j \in 1..Len(orders) : /\ orders[j].side # taker.side
                            /\ orders[j].order_type = "limit"
                            /\ orders[j].status = "open"}

\* The taker's limit lets it trade at this price.
WithinLimit(taker, price_usd) ==
    IF taker.side = "long" THEN price_usd <= taker.price_usd
    ELSE price_usd >= taker.price_usd

\* C30: every fill executes at the maker's limit price with size
\* min(taker remaining, maker remaining); a limit taker is never filled at
\* a price worse than its limit and stops at the first candidate that fails
\* the gate, so what it leaves unfilled faces only candidates beyond its
\* limit; a market taker is filled against any resting limit price, so what
\* it leaves unfilled faces no candidate at all.
C30_FillPriceAndSize ==
    [][Len(orders') = Len(orders) + 1
          => LET taker_id == Len(orders')
                 taker == orders'[taker_id]
                 first == Len(trades) + 1
             IN  /\ \A k \in NewTrades :
                       LET trade == trades'[k]
                           maker == orders[MakerOf(trade, taker_id)]
                       IN  /\ MakerOf(trade, taker_id) \in Candidates(taker)
                           /\ trade.price_usd = maker.price_usd
                           /\ trade.size_sats =
                                 Min(taker.size_sats - SizeOfTrades(trades', first, k - 1),
                                     maker.size_sats - maker.filled_size_sats)
                           /\ taker.order_type = "limit"
                              => WithinLimit(taker, trade.price_usd)
                 /\ taker.filled_size_sats = SizeOfTrades(trades', first, Len(trades'))
                 /\ taker.filled_size_sats < taker.size_sats
                    => \A j \in Candidates(taker) :
                          \/ \E k \in NewTrades : MakerOf(trades'[k], taker_id) = j
                          \/ /\ taker.order_type = "limit"
                             /\ ~WithinLimit(taker, orders[j].price_usd)]_vars

\* A limit taker was filled at a maker's price that is not its own limit,
\* for less than its size.
C30_FilledAtMakerPrice ==
    \E k \in 1..Len(trades) :
        LET taker == orders[FillTaker(k)]
            maker == orders[FillMaker(k)]
        IN  /\ taker.order_type = "limit"
            /\ taker.price_usd # maker.price_usd
            /\ trades[k].price_usd = maker.price_usd
            /\ trades[k].size_sats < taker.size_sats

\* size_sats of the trades that name order `id`.
RECURSIVE TradedSize(_, _)
TradedSize(id, n) ==
    IF n = 0 THEN 0
    ELSE TradedSize(id, n - 1)
         + (IF id \in {trades[n].buy_order_id, trades[n].sell_order_id}
            THEN trades[n].size_sats ELSE 0)

\* The candidates a matching pass has still to visit are stored as the
\* pass selected them: no other pass has filled them since.
SnapshotCurrent(t) ==
    threads[t].pc = "place_match"
    => \A k \in threads[t].i..Len(threads[t].rows) :
          orders[threads[t].resting[k]] = threads[t].rows[k]

\* C31: under concurrent place_order calls each matching pass sees all
\* fills of every earlier pass: no resting order is filled beyond its
\* size_sats, and the trades of an order never add up to more than its size.
C31_PassesSeeEarlierFills ==
    /\ \A t \in Threads : SnapshotCurrent(t)
    /\ \A id \in 1..Len(orders) :
          /\ orders[id].filled_size_sats <= orders[id].size_sats
          /\ TradedSize(id, Len(trades)) <= orders[id].size_sats

\* A taker waits for the lock, its order accepted, while the pass of
\* another taker of the same side has filled the resting order.
C31_TakerWaitedForPass ==
    \E t, u \in Threads :
        /\ threads[t].pc = "place_lock"
        /\ engine_lock = u
        /\ threads[u].pc \in {"place_match", "place_finish"}
        /\ threads[u].ev.side = threads[t].ev.side
        /\ \E k \in 1..Len(trades) : FillTaker(k) = threads[u].id

\* C32: when two debits of one futures account run concurrently, a
\* withdrawal with a reservation of place_order or with another
\* withdrawal, collateral_msats is not driven below 0: the total debited
\* never exceeds the collateral that was available.  Every amount debited
\* in these runs is positive.
C32_DebitsNeverOverdraw ==
    \A pubkey \in DOMAIN futures_accounts : futures_accounts[pubkey] >= 0

\* Thread t ends close_position with a credit to the owner of its position.
CloseCredits(t) ==
    /\ threads[t].pc = "close_credit"
    /\ threads'[t].pc = "idle"
    /\ futures_accounts' # futures_accounts

\* C33: each position is settled at most once: when two close_position
\* calls for one position run concurrently, the owner's collateral is
\* credited for it by at most one of them, the one whose delete removed
\* the row, and no call moves the insurance fund for a position that
\* another call has moved it for or has settled.
C33_PositionSettledOnce ==
    [][\A t \in Threads :
          /\ CloseCredits(t) => threads[t].deleted
          /\ (/\ threads[t].pc = "close_fund" /\ threads'[t].pc = "close_delete"
              /\ insurance_fund' # insurance_fund)
             => /\ threads[t].position \in positions
                /\ \A u \in Threads \ {t} :
                      threads[u].pc \in {"close_delete", "close_credit"}
                      => threads[u].position.id # threads[t].position.id]_vars

\* Thread t is past the checks of cancel_order for its order: what is left
\* of the call writes status cancelled and credits the refund.
Refunding(t) == threads[t].pc \in {"cancel_update", "cancel_credit"}

\* C34: the refund for an order is credited at most once: when two
\* cancel_order calls for one open order run concurrently, exactly one
\* refund reaches the account.  A call that goes on to its write and its
\* credit finds the order not yet cancelled and no other call on the way
\* to refund it.
C34_RefundedOnce ==
    [][\A t \in Threads :
          (threads[t].pc = "cancel_update" /\ threads'[t].pc = "cancel_credit")
          => /\ orders[threads[t].id].status # "cancelled"
             /\ \A u \in Threads \ {t} :
                   Refunding(u) => threads[u].id # threads[t].id]_vars

\* The order has been filled in part.
PartlyFilled(order) ==
    \/ order.status = "partially_filled"
    \/ 0 < order.filled_size_sats /\ order.filled_size_sats < order.size_sats

\* The parts of C35 about the order itself: a partially_filled order is in
\* no snapshot of candidates, no call of cancel_order that reads it passes
\* the checks, and its filled_size_sats stays as it is.
C35_NotMatchedNotCancellable ==
    [][\A i \in 1..Len(orders) :
          orders[i].status = "partially_filled"
          => /\ orders'[i].filled_size_sats = orders[i].filled_size_sats
             /\ \A t \in Threads :
                   /\ (threads[t].pc = "place_snapshot" /\ threads'[t].pc = "place_match")
                      => \A k \in 1..Len(threads'[t].resting) : threads'[t].resting[k] # i
                   /\ ~(/\ threads[t].pc = "idle"
                        /\ threads'[t].pc = "cancel_update"
                        /\ threads'[t].id = i)]_vars

\* C35: a partially_filled order is never a matching candidate and is
\* rejected by cancel_order, so once an order is partially filled its
\* filled_size_sats never changes again and the collateral reserved for its
\* unfilled remainder is never credited back to the account.
C35_PartiallyFilledIsFrozen ==
    [][\A i \in 1..Len(orders) :
          PartlyFilled(orders[i])
          => /\ orders'[i].filled_size_sats = orders[i].filled_size_sats
             /\ \A t \in Threads :
                   (/\ threads[t].pc = "cancel_credit"
                    /\ threads[t].id = i
                    /\ futures_accounts' # futures_accounts)
                   => FALSE]_vars

\* The order is the taker of a matching pass that has yet to write the
\* taker's status: its place_order call has not returned.
PassOpen(id) ==
    \E t \in Threads : threads[t].pc \in {"place_match", "place_finish"} /\ threads[t].id = id

\* C36: in every state reached by place_order and cancel_order calls, each
\* order's filled_size_sats is the sum of size_sats over the trades that
\* name it as buy_order_id or sell_order_id.
C36_FilledIsSumOfTrades ==
    \A id \in 1..Len(orders) :
        ~PassOpen(id) => orders[id].filled_size_sats = TradedSize(id, Len(trades))

\* All calls have returned, one order is filled by two trades and another
\* is filled in part.
C36_FilledByTwoTrades ==
    /\ \A t \in Threads : threads[t].pc = "idle"
    /\ Len(trades) = 2
    /\ \E id, other \in 1..Len(orders) :
          /\ orders[id].filled_size_sats = 2000
          /\ trades[1].size_sats = 1000 /\ trades[2].size_sats = 1000
          /\ id \in {trades[1].buy_order_id, trades[1].sell_order_id}
          /\ id \in {trades[2].buy_order_id, trades[2].sell_order_id}
          /\ orders[id].status = "partially_filled"
          /\ orders[other].status = "cancelled"

\* floor(size_sats * 1000 / leverage) + floor(size_sats * 1000 * taker_fee_pct)
RequiredOfSize(size_sats, leverage) ==
    (size_sats * 1000) \div leverage + (size_sats * 1000 * TAKER_FEE_NUM) \div FEE_DEN

\* C37: a successful place_order debits the caller's futures collateral by
\* exactly floor(size_sats * 1000 / leverage) + floor(size_sats * 1000 *
\* taker_fee_pct), whatever the order's price, and no order is accepted
\* from a caller whose collateral is smaller than that.
C37_DebitIsRequiredOfSize ==
    [][Len(orders') = Len(orders) + 1
       => LET order == orders'[Len(orders')]
              required == RequiredOfSize(order.size_sats, order.leverage)
          IN  /\ futures_accounts[order.pubkey] >= required
              /\ futures_accounts'[order.pubkey]
                     = futures_accounts[order.pubkey] - required]_vars

\* The mark is strictly on the safe side of the position's stored
\* liquidation price (kept in thousandths of a USD).
SafeSide(pos, mark) ==
    IF pos.side = "long" THEN mark * 1000 > pos.liquidation_price_usd
    ELSE mark * 1000 < pos.liquidation_price_usd

\* C38: a position whose collateral funding has not changed is never
\* liquidated by the scan while the mark price is strictly on the safe side
\* of its stored liquidation_price_usd: above it for a long, below it for
\* a short.
C38_SafeSideNotLiquidated ==
    [][\A pos \in positions :
          (/\ pos.funding_cost_msats = 0
           /\ \A q \in positions' : q.id # pos.id)
          => ~SafeSide(pos, cache_price')]_vars

\* A scan just above or below 200 USD has liquidated a position and left
\* one that funding has not touched, the mark being on its safe side.
C38_SparedOnSafeSide ==
    /\ last.op = "liquidation"
    /\ cache_price \in {199, 201}
    /\ \E pos \in positions : pos.funding_cost_msats = 0 /\ SafeSide(pos, cache_price)

\* C39: a market order is never a maker.  It is filled only during its own
\* place_order call: once stored, its row changes only when its owner
\* cancels it while it is open, and every trade that names a market order
\* is a trade of the call that placed it.
C39_MarketOrderNeverMaker ==
    [][/\ \A id \in 1..Len(orders) :
             orders[id].order_type = "market"
             => \/ orders'[id] = orders[id]
                \/ /\ orders[id].status = "open"
                   /\ orders'[id] = [orders[id] EXCEPT !.status = "cancelled"]
                   /\ last'.op = "cancel_order"
                   /\ last'.pubkey = orders[id].pubkey
                   /\ last'.arg = id
       /\ \A k \in (Len(trades) + 1)..Len(trades') :
             \A id \in {trades'[k].buy_order_id, trades'[k].sell_order_id} :
                orders'[id].order_type = "market" => id = Len(orders) + 1]_vars

\* A market order that matched nothing rests open, and an order of the
\* other side placed after it has matched nothing either.
C39_MarketOrderPassedOver ==
    /\ Len(orders) = 2
    /\ orders[1].order_type = "market" /\ orders[1].status = "open"
    /\ orders[2].side # orders[1].side
    /\ orders[2].status = "open"
    /\ last.op = "place_order" /\ last.arg = 2
    /\ trades = << >>

\* C40: for every candle of get_ohlcv(market, since, bucket_seconds), the
\* trades aggregated into it being those at or after `since` whose
\* floor(timestamp / bucket_seconds) * bucket_seconds is its bucket: open is
\* the price of the earliest and close the price of the latest of them, so
\* low <= open <= high and low <= close <= high, and volume is the sum of
\* their sizes, for any since, one inside a bucket included.
C40_CandlesOfAggregatedTrades ==
    last.op = "ohlcv"
    => \A b \in DOMAIN last.arg.candles :
          LET candle == last.arg.candles[b]
              rows == GroupRows(trades, last.arg.since, last.arg.bucket_seconds, b)
          IN  /\ candle.bucket = b
              /\ rows # {}
              /\ candle.open \in {trades[k].price_usd : k \in EarliestRows(trades, rows)}
              /\ candle.close \in {trades[k].price_usd : k \in LatestRows(trades, rows)}
              /\ candle.low <= candle.open /\ candle.open <= candle.high
              /\ candle.low <= candle.close /\ candle.close <= candle.high
              /\ candle.volume = SumSizes(trades, rows)

====
